---- MODULE Spec2Model ----
(***************************************************************************)
(* Model of the mermaid-cli rendering core:                                *)
(*   internal/renderer/browser.go   Browser (lazy shared chrome session)   *)
(*   internal/renderer/renderer.go  Renderer.Render (one render call)      *)
(*   internal/renderer/renderer.go  extractSVG, capturePNG, capturePDF     *)
(*   internal/renderer/template.go  BuildPageHTML and its driver script    *)
(*   internal/config                MermaidConfig.ToJSON                   *)
(*                                                                         *)
(* Goroutines calling into one Browser are the processes Procs.  Every     *)
(* launch of a chrome process gets an identifier 1..MaxLaunch; the context *)
(* values b.allocCtx and b.browserCtx are represented by the identifier of *)
(* the launch that created them (0 is the nil context).                    *)
(***************************************************************************)
EXTENDS Integers, Sequences, FiniteSets, TLC

\* ------------------------------------------------------------------ bounds
NumProcs == 2
NumRenderers == 2
MaxLaunch == 2
MaxLen == 2
MaxDiagrams == 2
MaxKids == 3
MaxLines == 4
MaxImages == 2
MaxEntry == 3
MaxPacks == 2
MaxPairs == 2
MaxScale == 2
MaxView == 7
Grid == 4
MaxPx == 2

Procs == 1..NumProcs
Renderers == {p \in Procs : p <= NumRenderers}
Main == CHOOSE p \in Procs : \A q \in Procs : p <= q
Launches == 1..MaxLaunch
NoProc == 0
NilCtx == 0
Targets == 1..NumProcs
NoTarget == 0

\* ------------------------------------------------------------------- state
VARIABLES
    mu,             \* Browser.mu: NoProc when free, else the goroutine holding it
    started,        \* Browser.started
    allocCtx,       \* Browser.allocCtx / allocCancel: launch id or NilCtx
    browserCtx,     \* Browser.browserCtx / browserCancel: launch id or NilCtx
    launchCount,    \* number of times the launch path (lines 54-55) ran
    confirmed,      \* per launch: "none" | "ok" | "fail", the chromedp.Run round-trip
    launchCtxDone,  \* per launch: the caller ctx given to the launching Context call is cancelled
    allocCancels,   \* per launch: invocations of its allocCancel
    browserCancels, \* per launch: invocations of its browserCancel
    closeCount,     \* number of Close calls that found the session started
    pc,             \* per goroutine: position in the code
    caller,         \* per goroutine: "api" (Context called directly) | "render"
    handle,         \* per goroutine: context returned by its last Context call (NilCtx: none)
    err,            \* per goroutine: error of its last call ("nil": none)
    epoch,          \* per goroutine: closeCount when its last Context or Close call returned
    liveAtReturn,   \* per goroutine: the chrome process of the returned handle ran at return
    outFormat,      \* per goroutine: outputFormat argument of its Render call
    tab,            \* per goroutine: per-call browsing context "none" | "open" | "released"
    target,         \* per goroutine: the page target of its open browsing context (NoTarget: none)
    expired,        \* per goroutine: the 60 s deadline of its tabCtx has passed
    atDeadline,     \* per goroutine: content of the slot at the moment the deadline passed
    peers,          \* per goroutine: the calls in flight with it when its deadline passed
    script,         \* per goroutine: position of renderDiagram() in the call's page
    record,         \* per goroutine: window.__mmd_result of the call's page
    svgIn,          \* per goroutine: "#container svg" matches in the call's page
    svgEver,        \* per goroutine: svgIn has been true since the page was loaded
    meta,           \* per goroutine: <<title, desc>> of the success record of the call's page
    resultJSON,     \* per goroutine: the local resultJSON of Render
    log,            \* per goroutine: protocol steps issued by the call, with outcome
    result,         \* per goroutine: the *RenderResult of its Render call (NoResult: nil)
    opts,           \* per goroutine: the RenderOpts fields read by the extraction
    override,       \* per goroutine: its page has the transparent background override set
    bounds,         \* per goroutine: rectangle of getSVGBounds "none" | "measured" | "default"
    buildIn,        \* the arguments of a call of BuildPageHTML
    buildOut,       \* what that call returned
    arg,            \* the argument of a call of one of the functions without side effects
    ret,            \* what that call returned (NoRet: not called yet)
    png,            \* a call of capturePNG: its position, arguments and the commands it issued
    run             \* the call of run(): its position, options and what it did so far

bvars == <<mu, started, allocCtx, browserCtx>>
envvars == <<launchCount, confirmed, launchCtxDone, allocCancels, browserCancels, closeCount>>
callvars == <<pc, caller, handle, err, result, epoch, liveAtReturn, outFormat>>
capvars == <<opts, override, bounds>>
tabvars == <<tab, target, expired, atDeadline, peers, capvars, resultJSON, log>>
pagevars == <<script, record, svgIn, svgEver, meta>>
buildvars == <<buildIn, buildOut, arg, ret, png>>
vars == <<bvars, envvars, callvars, tabvars, pagevars, buildvars, run>>

\* ------------------------------------------------- context tree (chromedp)
\* allocCtx of launch L is a child of the caller ctx of the launching call
\* (NewExecAllocator(ctx, ...)); it is done once that ctx or its own cancel fired.
AllocDone(L) == L # NilCtx /\ (launchCtxDone[L] \/ allocCancels[L] > 0)

\* browserCtx of launch L is a child of allocCtx (NewContext(b.allocCtx)).
BrowserDone(L) == L # NilCtx /\ (AllocDone(L) \/ browserCancels[L] > 0)

\* The chrome process of launch L answered the round-trip and was not terminated.
Alive(L) == L # NilCtx /\ confirmed[L] = "ok" /\ ~BrowserDone(L)

\* renderer.go:45  context.WithTimeout(tabCtx, 60 s): the deadline that ends
\* the contexts of a call is the deadline of that call.
DeadlinePassed_OfAnyCall(p) == \E q \in Procs : expired[q]

DeadlinePassed(p) == expired[p]

\* tabCtx of a Render call: child of the handle it got, with the 60 s deadline.
TabDone(p) == DeadlinePassed(p) \/ tab[p] = "released" \/ BrowserDone(handle[p])

\* Outcomes of chromedp.Run(tabCtx, ...): a command on a done context fails with
\* ctx.Err(); on a live one it succeeds or fails with a transport error.
RunOutcomes(p) == IF TabDone(p) THEN {FALSE} ELSE {TRUE, FALSE}

\* Calls that have entered Context and not yet run the launch path.
BeforeLaunch == {q \in Procs : pc[q] \in {"ctx_lock", "ctx_check", "ctx_launch"}}

\* Every call that is admitted can still launch within MaxLaunch.
LaunchBudget == launchCount + Cardinality(BeforeLaunch) < MaxLaunch

\* JSON null, also the value of a member that the record does not have.
Null == "null"

\* Titles and descriptions that the metadata step finds in a rendered svg:
\* a title and no description, or a description and no title.
Metas == {<<"title", Null>>, <<Null, "desc">>}

NoMeta == <<Null, Null>>

\* RenderResult (renderer.go:17-21), and the nil result of a failed call.
NoResult == [title |-> "", desc |-> "", data |-> "none"]

\* RenderOpts fields that the extraction reads: BackgroundColor == "transparent",
\* and SvgFit or PdfFit, whichever belongs to the output format.
NoOpts == [transparent |-> FALSE, fit |-> FALSE]

\* ------------------------------------------------ BuildPageHTML (template.go)
\* Text is a sequence of characters.  The characters of the inputs: a plain
\* one, the quote, the backslash, and the three that json.Marshal escapes for HTML.
Alphabet == {"a", "\"", "\\", "<", ">", "&"}

\* The definitions of at most MaxLen characters.
Texts == UNION {[1..n -> Alphabet] : n \in 0..MaxLen}

\* A text that tries to end a string literal and the script block.
Hostile == <<"\"", "\\", "<", ">", "&", "a">>

\* Values of opts.SVGId, opts.BackgroundColor, opts.CSS and of a string of the configuration.
Samples == {<<>>, Hostile}

\* config.MermaidConfig with the one key "theme"; its value is a string, or a
\* value for which json.Marshal returns an error (a func, a channel).
Configs == [kind : {"string"}, text : Samples] \cup {[kind |-> "func", text |-> <<>>]}

Inputs == [definition : Texts, svgId : Samples, backgroundColor : Samples,
           css : Samples, config : Configs, iconPacks : {<<>>}]

NoInput == [definition |-> <<>>, svgId |-> <<>>, backgroundColor |-> <<>>, css |-> <<>>,
            config |-> [kind |-> "string", text |-> <<>>], iconPacks |-> <<>>]

NoOutput == [done |-> FALSE, html |-> <<>>, err |-> "nil"]
NoArg == [fn |-> "none"]
NoRet == [fn |-> "none"]
NoRun == [at |-> "none"]
NoPng == [at |-> "none"]

\* encoding/json, the string encoder with HTML escaping as json.Marshal uses it
\* (template_test.go:30, 93): one character of the input as it is written.
EscapeChar(c) ==
    CASE c = "\"" -> <<"\\", "\"">>
      [] c = "\\" -> <<"\\", "\\">>
      [] c = "<"  -> <<"\\", "u", "0", "0", "3", "c">>
      [] c = ">"  -> <<"\\", "u", "0", "0", "3", "e">>
      [] c = "&"  -> <<"\\", "u", "0", "0", "2", "6">>
      [] OTHER    -> <<c>>

RECURSIVE Escaped(_)
Escaped(t) == IF t = <<>> THEN <<>> ELSE EscapeChar(Head(t)) \o Escaped(Tail(t))

\* template.go:34-52  json.Marshal of a string: the quoted, escaped text
Marshal_Raw(t) == <<"\"">> \o t \o <<"\"">>

Marshal(t) == <<"\"">> \o Escaped(t) \o <<"\"">>

\* part_000:594  json.Marshal(c) fails on a value that JSON cannot represent
Serializable_Always(c) == TRUE

Serializable(c) == c.kind = "string"

\* part_000:592-599  MermaidConfig.ToJSON: the object with its keys and values
ToJSON(c) == <<"{">> \o Marshal(<<"t", "h", "e", "m", "e">>) \o <<":">> \o Marshal(c.text) \o <<"}">>

\* fmt %q (strconv.Quote) of a string: quote and backslash get a backslash,
\* every other character drawn here is written as itself.
RECURSIVE Quoted(_)
Quoted(t) ==
    IF t = <<>> THEN <<>>
    ELSE (IF Head(t) \in {"\"", "\\"} THEN <<"\\", Head(t)>> ELSE <<Head(t)>>) \o Quoted(Tail(t))

Quote(t) == <<"\"">> \o Quoted(t) \o <<"\"">>

\* browser.go:134-141  the fixed pieces of the generated script
JSHead == "mermaid.registerIconPacks(["
JSName == "{ name: "
JSLoader == ", loader: () => fetch("
JSCatch == ").then((res) => res.json()).catch(() => console.error("
JSFailed == "Failed to fetch icon: "
JSEnd == ")) },"
JSTail == "]);"

\* browser.go:136-140  fmt.Sprintf with %q, %q, %s for pack.Name, pack.URL, pack.Name
PackJS(pack) ==
    <<JSName>> \o Quote(pack.Name) \o <<JSLoader>> \o Quote(pack.URL) \o <<JSCatch>>
      \o <<"\"", JSFailed>> \o pack.Name \o <<"\"">> \o <<JSEnd>>

RECURSIVE PacksJS(_)
PacksJS(packs) == IF packs = <<>> THEN <<>> ELSE PackJS(Head(packs)) \o PacksJS(Tail(packs))

\* A test that never finds the list empty.
NoPacks_Never(packs) == FALSE

\* browser.go:129  len(packs) == 0
NoPacks(packs) == packs = <<>>

\* browser.go:128-144  GenerateIconPackJS
GenerateIconPackJS(packs) ==
    IF NoPacks(packs) THEN <<>> ELSE <<JSHead>> \o PacksJS(packs) \o <<JSTail>>

\* template.go:85-92  the part of the page that holds the icon pack script
\* and the five embedded values; the fixed text between them is kept in pieces.
ScriptText(in) ==
    GenerateIconPackJS(in.iconPacks)
      \o <<"mermaid.initialize({ startOnLoad: false, ...">> \o ToJSON(in.config)
      \o <<" }); const definition = ">> \o Marshal(in.definition)
      \o <<"; const svgId = ">> \o Marshal(in.svgId)
      \o <<" || 'my-svg'; const backgroundColor = ">> \o Marshal(in.backgroundColor)
      \o <<"; const myCSS = ">> \o Marshal(in.css)
      \o <<";">>

\* template.go:28-133  BuildPageHTML(definition, opts)
BuildPageHTML(in) ==
    IF ~Serializable(in.config)
      THEN [done |-> TRUE, html |-> <<>>, err |-> "ConfigError"]
      ELSE [done |-> TRUE, html |-> ScriptText(in), err |-> "nil"]

\* ---------------------------------------------------------------- initial
InitSession ==
    /\ mu = NoProc
    /\ started = FALSE
    /\ allocCtx = NilCtx
    /\ browserCtx = NilCtx
    /\ launchCount = 0
    /\ confirmed = [L \in Launches |-> "none"]
    /\ launchCtxDone = [L \in Launches |-> FALSE]
    /\ allocCancels = [L \in Launches |-> 0]
    /\ browserCancels = [L \in Launches |-> 0]
    /\ closeCount = 0
    /\ pc = [p \in Procs |-> "idle"]
    /\ caller = [p \in Procs |-> "none"]
    /\ handle = [p \in Procs |-> NilCtx]
    /\ err = [p \in Procs |-> "nil"]
    /\ epoch = [p \in Procs |-> 0]
    /\ liveAtReturn = [p \in Procs |-> FALSE]
    /\ outFormat = [p \in Procs |-> "none"]
    /\ tab = [p \in Procs |-> "none"]
    /\ target = [p \in Procs |-> NoTarget]
    /\ expired = [p \in Procs |-> FALSE]
    /\ atDeadline = [p \in Procs |-> "none"]
    /\ peers = [p \in Procs |-> {}]
    /\ script = [p \in Procs |-> 0]
    /\ record = [p \in Procs |-> "none"]
    /\ svgIn = [p \in Procs |-> FALSE]
    /\ svgEver = [p \in Procs |-> FALSE]
    /\ meta = [p \in Procs |-> NoMeta]
    /\ resultJSON = [p \in Procs |-> ""]
    /\ log = [p \in Procs |-> <<>>]
    /\ result = [p \in Procs |-> NoResult]
    /\ opts = [p \in Procs |-> NoOpts]
    /\ override = [p \in Procs |-> FALSE]
    /\ bounds = [p \in Procs |-> "none"]

Init ==
    /\ InitSession
    /\ buildIn = NoInput
    /\ png = NoPng
    /\ buildOut = NoOutput
    /\ arg = NoArg
    /\ ret = NoRet
    /\ run = NoRun

\* ------------------------------------------------------- Browser.Context
\* sync.Mutex: Lock() proceeds only when no goroutine holds the mutex.
MutexFree_NoExclusion == TRUE

MutexFree == mu = NoProc

\* browser.go:35  if b.started { return b.browserCtx, nil }
AlreadyStarted_Ignored == FALSE

AlreadyStarted == started

\* A goroutine begins a call: what it kept from its previous call is dropped.
Begin(p, op, at) ==
    /\ pc[p] = "idle"
    /\ pc' = [pc EXCEPT ![p] = at]
    /\ caller' = [caller EXCEPT ![p] = op]
    /\ handle' = [handle EXCEPT ![p] = NilCtx]
    /\ err' = [err EXCEPT ![p] = "nil"]
    /\ epoch' = [epoch EXCEPT ![p] = 0]
    /\ liveAtReturn' = [liveAtReturn EXCEPT ![p] = FALSE]
    /\ outFormat' = [outFormat EXCEPT ![p] = "none"]
    /\ tab' = [tab EXCEPT ![p] = "none"]
    /\ target' = [target EXCEPT ![p] = NoTarget]
    /\ expired' = [expired EXCEPT ![p] = FALSE]
    /\ atDeadline' = [atDeadline EXCEPT ![p] = "none"]
    /\ peers' = [q \in Procs |-> IF q = p THEN {} ELSE peers[q] \ {p}]
    /\ resultJSON' = [resultJSON EXCEPT ![p] = ""]
    /\ log' = [log EXCEPT ![p] = <<>>]
    /\ script' = [script EXCEPT ![p] = 0]
    /\ record' = [record EXCEPT ![p] = "none"]
    /\ svgIn' = [svgIn EXCEPT ![p] = FALSE]
    /\ svgEver' = [svgEver EXCEPT ![p] = FALSE]
    /\ meta' = [meta EXCEPT ![p] = NoMeta]
    /\ result' = [result EXCEPT ![p] = NoResult]
    /\ opts' = [opts EXCEPT ![p] = NoOpts]
    /\ override' = [override EXCEPT ![p] = FALSE]
    /\ bounds' = [bounds EXCEPT ![p] = "none"]
    /\ UNCHANGED <<buildvars, bvars, envvars>>

\* The call p enters Browser.Context directly (not through Render).
CallContext(p) ==
    /\ LaunchBudget
    /\ Begin(p, "api", "ctx_lock")
    /\ UNCHANGED run

\* browser.go:32  b.mu.Lock()
CtxLock(p) ==
    /\ pc[p] = "ctx_lock"
    /\ MutexFree
    /\ mu' = p
    /\ pc' = [pc EXCEPT ![p] = "ctx_check"]
    /\ UNCHANGED <<buildvars, run, started, allocCtx, browserCtx, envvars, caller, handle, err, result, epoch,
                   liveAtReturn, outFormat, tabvars, pagevars>>

\* browser.go:33  defer b.mu.Unlock(): the lock is free when Context returns.
DeferredUnlock_AtRenderEnd(p) == IF caller[p] = "render" THEN p ELSE NoProc

DeferredUnlock(p) == NoProc

\* Return of Context to its caller, with the deferred b.mu.Unlock().  A direct
\* caller is back at "idle"; Render goes on at line 41, or returns at line 37.
CtxReturn(p, h, e, live) ==
    /\ mu' = DeferredUnlock(p)
    /\ handle' = [handle EXCEPT ![p] = h]
    /\ err' = [err EXCEPT ![p] = e]
    /\ result' = result
    /\ epoch' = [epoch EXCEPT ![p] = closeCount]
    /\ liveAtReturn' = [liveAtReturn EXCEPT ![p] = live]
    /\ pc' = [pc EXCEPT ![p] =
                IF caller[p] = "render" /\ e = "nil" THEN "r_tab" ELSE "idle"]

\* browser.go:35-37
CtxCheck(p) ==
    /\ pc[p] = "ctx_check"
    /\ IF AlreadyStarted
         THEN /\ CtxReturn(p, browserCtx, "nil", Alive(browserCtx))
              /\ UNCHANGED <<started, allocCtx, browserCtx, envvars>>
         ELSE /\ pc' = [pc EXCEPT ![p] = "ctx_launch"]
              /\ UNCHANGED <<bvars, envvars, handle, err, result, epoch, liveAtReturn>>
    /\ UNCHANGED <<buildvars, run, caller, outFormat, tabvars, pagevars>>

\* browser.go:32-33, 39-58  b.mu stays locked on the launch path: the only
\* unlock is the deferred one
HeldInLaunch_Released(p) == NoProc

HeldInLaunch(p) == p

\* browser.go:39-55  the launch path: NewExecAllocator(ctx, opts...), NewContext
CtxLaunch(p) ==
    /\ pc[p] = "ctx_launch"
    /\ launchCount < MaxLaunch
    /\ mu' = HeldInLaunch(p)
    /\ launchCount' = launchCount + 1
    /\ allocCtx' = launchCount + 1
    /\ browserCtx' = launchCount + 1
    /\ pc' = [pc EXCEPT ![p] = "ctx_run"]
    /\ UNCHANGED <<buildvars, run, started, confirmed, launchCtxDone, allocCancels, browserCancels,
                   closeCount, caller, handle, err, result, epoch, liveAtReturn, outFormat,
                   tabvars, pagevars>>

\* browser.go:58-61  the round-trip failed: b.allocCancel(); return nil, err
LaunchFailed_MarksStarted(p) ==
    /\ confirmed' = [confirmed EXCEPT ![browserCtx] = "fail"]
    /\ allocCancels' = [allocCancels EXCEPT ![allocCtx] = @ + 1]
    /\ started' = TRUE
    /\ CtxReturn(p, NilCtx, "LaunchError", FALSE)

LaunchFailed(p) ==
    /\ confirmed' = [confirmed EXCEPT ![browserCtx] = "fail"]
    /\ allocCancels' = [allocCancels EXCEPT ![allocCtx] = @ + 1]
    /\ started' = started
    /\ CtxReturn(p, NilCtx, "LaunchError", FALSE)

\* browser.go:58-64  chromedp.Run(b.browserCtx) starts chrome and confirms it
CtxRun(p) ==
    /\ pc[p] = "ctx_run"
    /\ \E ok \in IF BrowserDone(browserCtx) THEN {FALSE} ELSE {TRUE, FALSE} :
         IF ok
           THEN /\ confirmed' = [confirmed EXCEPT ![browserCtx] = "ok"]
                /\ started' = TRUE
                /\ allocCancels' = allocCancels
                /\ CtxReturn(p, browserCtx, "nil", TRUE)
           ELSE LaunchFailed(p)
    /\ UNCHANGED <<buildvars, run, allocCtx, browserCtx, launchCount, launchCtxDone, browserCancels,
                   closeCount, caller, outFormat, tabvars, pagevars>>

\* The caller cancels the ctx it passed to the Context call that made launch L.
CancelLaunchCtx(L) ==
    /\ L \in 1..launchCount
    /\ ~launchCtxDone[L]
    /\ launchCtxDone' = [launchCtxDone EXCEPT ![L] = TRUE]
    /\ UNCHANGED <<buildvars, run, bvars, launchCount, confirmed, allocCancels, browserCancels,
                   closeCount, callvars, tabvars, pagevars>>

\* --------------------------------------------------------- Browser.Close
\* Renderer.Close (renderer.go:157-159) only forwards to Browser.Close.
CallClose(p) ==
    /\ Begin(p, "close", "close_lock")
    /\ UNCHANGED run

\* browser.go:69  b.mu.Lock()
CloseLock(p) ==
    /\ pc[p] = "close_lock"
    /\ MutexFree
    /\ mu' = p
    /\ pc' = [pc EXCEPT ![p] = "close_body"]
    /\ UNCHANGED <<buildvars, run, started, allocCtx, browserCtx, envvars, caller, handle, err, result, epoch,
                   liveAtReturn, outFormat, tabvars, pagevars>>

\* browser.go:72-74  if !b.started { return }
CloseGuard_Missing == TRUE

CloseGuard == started

\* browser.go:82  b.started = false
StartedAfterClose_Kept == TRUE

StartedAfterClose == FALSE

\* browser.go:72-83 with the deferred unlock
CloseBody(p) ==
    /\ pc[p] = "close_body"
    /\ IF CloseGuard
         THEN /\ browserCancels' = IF browserCtx # NilCtx
                                     THEN [browserCancels EXCEPT ![browserCtx] = @ + 1]
                                     ELSE browserCancels
              /\ allocCancels' = IF allocCtx # NilCtx
                                   THEN [allocCancels EXCEPT ![allocCtx] = @ + 1]
                                   ELSE allocCancels
              /\ started' = StartedAfterClose
              /\ closeCount' = closeCount + 1
         ELSE UNCHANGED <<browserCancels, allocCancels, started, closeCount>>
    /\ mu' = NoProc
    /\ epoch' = [epoch EXCEPT ![p] = closeCount']
    /\ pc' = [pc EXCEPT ![p] = "idle"]
    /\ UNCHANGED <<buildvars, run, allocCtx, browserCtx, launchCount, confirmed, launchCtxDone, caller,
                   handle, err, result, liveAtReturn, outFormat, tabvars, pagevars>>


\* ------------------------------------------------------- Renderer.Render
Formats == {"svg", "png", "pdf", "gif"}

\* JSON.stringify(window.__mmd_result || {}) for the three contents of the slot.
RecordJSON(r) ==
    CASE r = "none" -> "{}"
      [] r = "ok"   -> "{success:true}"
      [] r = "fail" -> "{error,success:false}"

\* renderer.go:34-38  Render begins by calling r.browser.Context(ctx).  The
\* outputFormat argument is read only by the switch of line 121 and is drawn there.
CallRender(p) ==
    /\ LaunchBudget
    /\ Begin(p, "render", "ctx_lock")
    /\ UNCHANGED run

\* A return statement of Render after line 46: the deferred timeoutCancel() and
\* tabCancel() run, then the caller has the error e ("nil": a result).
ReleaseOnReturn_OnlyOnSuccess(p, e) == IF e = "nil" THEN "released" ELSE tab[p]

ReleaseOnReturn(p, e) == "released"

\* renderer.go:42-46  the defers of Render cancel the call's own contexts only;
\* b.started is written by Browser.Context and Browser.Close alone.
StartedAfterRender_ShutDown == FALSE

StartedAfterRender == started

RenderReturn(p, e) ==
    /\ started' = StartedAfterRender
    /\ tab' = [tab EXCEPT ![p] = ReleaseOnReturn(p, e)]
    /\ target' = [target EXCEPT ![p] = IF ReleaseOnReturn(p, e) = "released" THEN NoTarget ELSE @]
    /\ err' = [err EXCEPT ![p] = e]
    /\ result' = [result EXCEPT ![p] = NoResult]
    /\ pc' = [pc EXCEPT ![p] = "idle"]

\* The target of the context that a command of call p is run on: every
\* chromedp.Run of Render and of the extraction functions is given tabCtx.
CommandTarget(p) == target[p]

\* A protocol step of the call: its name, whether it succeeded, and whether it
\* was run on the target of the call's own browsing context.
LogEntry(p, step, ok) == <<step, ok, CommandTarget(p) = target[p]>>

Logged(p, step, ok) == log' = [log EXCEPT ![p] = Append(@, LogEntry(p, step, ok))]

\* renderer.go:41  chromedp.NewContext(browserCtx) makes a context with a page
\* target of its own, one that no open browsing context has.
NewTarget_Shared(p) == 1

NewTarget(p) == CHOOSE t \in Targets : \A q \in Procs : tab[q] = "open" => target[q] # t

\* renderer.go:41-46  chromedp.NewContext(browserCtx), context.WithTimeout(60 s)
RenderOpenTab(p) ==
    /\ pc[p] = "r_tab"
    /\ tab' = [tab EXCEPT ![p] = "open"]
    /\ target' = [target EXCEPT ![p] = NewTarget(p)]
    /\ pc' = [pc EXCEPT ![p] = "r_build"]
    /\ UNCHANGED <<buildvars, run, bvars, envvars, caller, handle, err, result, epoch, liveAtReturn, outFormat,
                   expired, atDeadline, peers, capvars, resultJSON, log, pagevars>>

\* renderer.go:49-52  BuildPageHTML fails when the configuration cannot be serialized
RenderBuild(p) ==
    /\ pc[p] = "r_build"
    /\ \E serializable \in BOOLEAN :
         IF serializable
           THEN /\ pc' = [pc EXCEPT ![p] = "r_viewport"]
                /\ UNCHANGED <<started, tab, target, err, result>>
           ELSE RenderReturn(p, "BuildError")
    /\ UNCHANGED <<buildvars, run, mu, allocCtx, browserCtx, envvars, caller, handle, epoch, liveAtReturn, outFormat,
                   expired, atDeadline, peers, capvars, resultJSON, log, pagevars>>

\* After a protocol step: go on at `next` when it succeeded, else return e.
StepThen_IgnoringError(p, ok, next, e) ==
    /\ pc' = [pc EXCEPT ![p] = next]
    /\ UNCHANGED <<started, tab, target, err, result>>

\* A step that is issued again after it failed.
StepThen_Retrying(p, ok, next, e) ==
    /\ pc' = [pc EXCEPT ![p] = IF ok THEN next ELSE pc[p]]
    /\ UNCHANGED <<started, tab, target, err, result>>

StepThen(p, ok, next, e) ==
    IF ok
      THEN /\ pc' = [pc EXCEPT ![p] = next]
           /\ UNCHANGED <<started, tab, target, err, result>>
      ELSE RenderReturn(p, e)

\* renderer.go:55-59  emulation.SetDeviceMetricsOverride
RenderViewport(p) ==
    /\ pc[p] = "r_viewport"
    /\ \E ok \in RunOutcomes(p) :
         /\ Logged(p, "viewport", ok)
         /\ StepThen(p, ok, "r_navigate", "ViewportError")
    /\ UNCHANGED <<buildvars, run, mu, allocCtx, browserCtx, envvars, caller, handle, epoch, liveAtReturn, outFormat,
                   expired, atDeadline, peers, capvars, resultJSON, pagevars>>

\* renderer.go:62-72  Navigate("about:blank") and page.GetFrameTree
RenderNavigate(p) ==
    /\ pc[p] = "r_navigate"
    /\ \E ok \in RunOutcomes(p) :
         /\ Logged(p, "navigate", ok)
         /\ StepThen(p, ok, "r_content", "NavigateError")
    /\ UNCHANGED <<buildvars, run, mu, allocCtx, browserCtx, envvars, caller, handle, epoch, liveAtReturn, outFormat,
                   expired, atDeadline, peers, capvars, resultJSON, pagevars>>

\* renderer.go:74-78  page.SetDocumentContent: the page is loaded and its
\* driver script is about to run (script = 1).
RenderSetContent(p) ==
    /\ pc[p] = "r_content"
    /\ \E ok \in RunOutcomes(p) :
         /\ Logged(p, "content", ok)
         /\ StepThen(p, ok, "r_wait", "SetContentError")
         /\ script' = [script EXCEPT ![p] = IF ok THEN 1 ELSE @]
    /\ UNCHANGED <<buildvars, run, mu, allocCtx, browserCtx, envvars, caller, handle, epoch, liveAtReturn, outFormat,
                   expired, atDeadline, peers, capvars, resultJSON, record, svgIn, svgEver, meta>>

\* renderer.go:81-83  WaitReady("#container svg") returned nil: the element is there.
RenderWaitOK(p) ==
    /\ pc[p] = "r_wait"
    /\ ~TabDone(p)
    /\ svgIn[p]
    /\ Logged(p, "wait", TRUE)
    /\ pc' = [pc EXCEPT ![p] = "r_read"]
    /\ UNCHANGED <<buildvars, run, bvars, envvars, caller, handle, err, result, epoch, liveAtReturn, outFormat,
                   tab, target, expired, atDeadline, peers, capvars, resultJSON, pagevars>>

\* renderer.go:81-84  WaitReady polls until its context is done and then
\* returns ctx.Err(): the deadline passed or the browser context was cancelled.
RenderWaitFail(p) ==
    /\ pc[p] = "r_wait"
    /\ TabDone(p)
    /\ Logged(p, "wait", FALSE)
    /\ pc' = [pc EXCEPT ![p] = "r_diag"]
    /\ UNCHANGED <<buildvars, run, bvars, envvars, caller, handle, err, result, epoch, liveAtReturn, outFormat,
                   tab, target, expired, atDeadline, peers, capvars, resultJSON, pagevars>>

\* renderer.go:85-89  the read of the slot on the failure path of the wait, on
\* the same tabCtx; its error is dropped and resultJSON is then still "".
RenderWaitDiag(p) ==
    /\ pc[p] = "r_diag"
    /\ \E ok \in RunOutcomes(p) :
         /\ Logged(p, "diag", ok)
         /\ resultJSON' = [resultJSON EXCEPT ![p] = IF ok THEN RecordJSON(record[p]) ELSE ""]
    /\ RenderReturn(p, "WaitError")
    /\ UNCHANGED <<buildvars, run, mu, allocCtx, browserCtx, envvars, caller, handle, epoch, liveAtReturn, outFormat,
                   expired, atDeadline, peers, capvars, pagevars>>

\* renderer.go:100-119  json.Unmarshal into *string members: null and a
\* missing member leave the pointer nil and the result field at its zero value.
FromJSON(v) == IF v = Null THEN "" ELSE v

\* renderer.go:113-119  result := &RenderResult{}; Title and Desc from the record
ParsedResult(p) ==
    [title |-> FromJSON(meta[p][1]), desc |-> FromJSON(meta[p][2]), data |-> "none"]

\* renderer.go:109-111  if !renderResult.Success { return error } on the parsed record
AfterRead_IgnoringSuccess(p, json) ==
    /\ pc' = [pc EXCEPT ![p] = "r_extract"]
    /\ result' = [result EXCEPT ![p] = ParsedResult(p)]
    /\ UNCHANGED <<started, tab, target, err>>

AfterRead(p, json) ==
    IF json = "{success:true}"
      THEN /\ pc' = [pc EXCEPT ![p] = "r_extract"]
           /\ result' = [result EXCEPT ![p] = ParsedResult(p)]
           /\ UNCHANGED <<started, tab, target, err>>
      ELSE RenderReturn(p, "RenderError")

\* renderer.go:93-111  read the slot, parse it, check its success flag
RenderRead(p) ==
    /\ pc[p] = "r_read"
    /\ \E ok \in RunOutcomes(p) :
         /\ Logged(p, "read", ok)
         /\ IF ok
              THEN /\ resultJSON' = [resultJSON EXCEPT ![p] = RecordJSON(record[p])]
                   /\ AfterRead(p, RecordJSON(record[p]))
              ELSE /\ resultJSON' = resultJSON
                   /\ RenderReturn(p, "ReadError")
    /\ UNCHANGED <<buildvars, run, mu, allocCtx, browserCtx, envvars, caller, handle, epoch, liveAtReturn, outFormat,
                   expired, atDeadline, peers, capvars, pagevars>>

\* The options that the extraction of format f reads.
OptsFor(f) ==
    CASE f = "svg" -> {[transparent |-> FALSE, fit |-> x] : x \in BOOLEAN}
      [] f = "png" -> {[transparent |-> t, fit |-> FALSE] : t \in BOOLEAN}
      [] f = "pdf" -> [transparent : BOOLEAN, fit : BOOLEAN]
      [] OTHER     -> {NoOpts}

\* renderer.go:121-153  the first statement of the case that the switch selects
FirstStep_SetsBg(f, o) ==
    CASE f = "svg" -> "r_svg"
      [] f = "png" -> "r_png_bounds"
      [] f = "pdf" -> "r_pdf_bg"

FirstStep(f, o) ==
    CASE f = "svg" -> "r_svg"
      [] f = "png" -> "r_png_bounds"
      [] f = "pdf" -> IF o.transparent THEN "r_pdf_bg"
                      ELSE IF o.fit THEN "r_pdf_bounds" ELSE "r_pdf_print"

\* renderer.go:121-153  the format switch; an unknown format issues no command
RenderExtract(p) ==
    /\ pc[p] = "r_extract"
    /\ \E f \in Formats : \E o \in OptsFor(f) :
         /\ outFormat' = [outFormat EXCEPT ![p] = f]
         /\ opts' = [opts EXCEPT ![p] = o]
         /\ IF f \in {"svg", "png", "pdf"}
              THEN /\ pc' = [pc EXCEPT ![p] = FirstStep(f, o)]
                   /\ UNCHANGED <<started, tab, target, err, result>>
              ELSE RenderReturn(p, "FormatError")
    /\ UNCHANGED <<buildvars, run, mu, allocCtx, browserCtx, envvars, caller, handle, epoch, liveAtReturn,
                   expired, atDeadline, peers, override, bounds, resultJSON, log, pagevars>>

\* A return of Render with a result whose Data is d (renderer.go:133, 140, 147, 153).
RenderDone(p, d) ==
    /\ started' = StartedAfterRender
    /\ tab' = [tab EXCEPT ![p] = ReleaseOnReturn(p, "nil")]
    /\ target' = [target EXCEPT ![p] = NoTarget]
    /\ err' = [err EXCEPT ![p] = "nil"]
    /\ result' = [result EXCEPT ![p].data = d]
    /\ pc' = [pc EXCEPT ![p] = "idle"]

\* The extraction phase has ended when its function returns.
ExtractEnds(p, ended, ok) ==
    log' = IF ended THEN [log EXCEPT ![p] = Append(@, LogEntry(p, "extract", ok))] ELSE log

\* renderer.go:163-172, 183-201  the script of extractSVG and extractSVGFit:
\* if (!svg) return ''; else the serialized element
SVGXML(p) == IF svgIn[p] THEN "<svg>" ELSE ""

\* renderer.go:175, 204  if svgXML == "" { return error }
EmptyXML_Unchecked(x) == FALSE

EmptyXML(x) == x = ""

\* renderer.go:122-128, 162-208  extractSVG, or extractSVGFit under opts.SvgFit
ExtractSVG(p) ==
    /\ pc[p] = "r_svg"
    /\ \E ok \in RunOutcomes(p) :
         IF ~ok
           THEN /\ ExtractEnds(p, TRUE, FALSE)
                /\ RenderReturn(p, "ExtractError")
           ELSE IF EmptyXML(SVGXML(p))
                  THEN /\ ExtractEnds(p, TRUE, FALSE)
                       /\ RenderReturn(p, "NoSVGError")
                  ELSE /\ ExtractEnds(p, TRUE, TRUE)
                       /\ RenderDone(p, IF opts[p].fit THEN "svgfit" ELSE "svg")
    /\ UNCHANGED <<buildvars, run, mu, allocCtx, browserCtx, envvars, caller, handle, epoch, liveAtReturn, outFormat,
                   expired, atDeadline, peers, capvars, resultJSON, pagevars>>

\* renderer.go:221-227  the script of getSVGBounds: without an svg element it
\* answers the rectangle {0, 0, 800, 600}.
SVGBounds(p) == IF svgIn[p] THEN "measured" ELSE "default"

\* renderer.go:219-243  getSVGBounds as called by capturePNG (247) and capturePDF (319)
GetBounds(p, next) ==
    \E ok \in RunOutcomes(p) :
      /\ bounds' = [bounds EXCEPT ![p] = IF ok THEN SVGBounds(p) ELSE @]
      /\ ExtractEnds(p, ~ok, FALSE)
      /\ StepThen(p, ok, next, "BoundsError")

\* renderer.go:247-250
PngBounds(p) ==
    /\ pc[p] = "r_png_bounds"
    /\ GetBounds(p, "r_png_resize")
    /\ UNCHANGED <<buildvars, run, mu, allocCtx, browserCtx, envvars, caller, handle, epoch, liveAtReturn, outFormat,
                   expired, atDeadline, peers, opts, override, resultJSON, pagevars>>

\* renderer.go:253-259  SetDeviceMetricsOverride to the size of the rectangle
PngResize(p) ==
    /\ pc[p] = "r_png_resize"
    /\ \E ok \in RunOutcomes(p) :
         /\ ExtractEnds(p, ~ok, FALSE)
         /\ StepThen(p, ok, IF opts[p].transparent THEN "r_png_bg" ELSE "r_png_capture",
                     "ResizeError")
    /\ UNCHANGED <<buildvars, run, mu, allocCtx, browserCtx, envvars, caller, handle, epoch, liveAtReturn, outFormat,
                   expired, atDeadline, peers, capvars, resultJSON, pagevars>>

\* renderer.go:272-279, 308-314  SetDefaultBackgroundColorOverride(alpha 0)
SetBg(p, next) ==
    \E ok \in RunOutcomes(p) :
      /\ override' = [override EXCEPT ![p] = ok]
      /\ ExtractEnds(p, ~ok, FALSE)
      /\ StepThen(p, ok, next, "SetBgError")

\* renderer.go:272-279
PngSetBg(p) ==
    /\ pc[p] = "r_png_bg"
    /\ SetBg(p, "r_png_capture")
    /\ UNCHANGED <<buildvars, run, mu, allocCtx, browserCtx, envvars, caller, handle, epoch, liveAtReturn, outFormat,
                   expired, atDeadline, peers, opts, bounds, resultJSON, pagevars>>

\* A capture or print command: on failure the function returns e at once; on
\* success it goes on to the reset when the override was requested, and
\* returns the bytes d otherwise.
Shoot(p, d, reset, e) ==
    \E ok \in RunOutcomes(p) :
      IF ~ok
        THEN /\ ExtractEnds(p, TRUE, FALSE)
             /\ RenderReturn(p, e)
        ELSE IF opts[p].transparent
               THEN /\ pc' = [pc EXCEPT ![p] = reset]
                    /\ UNCHANGED <<started, tab, target, err, result, log>>
               ELSE /\ ExtractEnds(p, TRUE, TRUE)
                    /\ RenderDone(p, d)

\* renderer.go:283-293  page.CaptureScreenshot with the clip of the rectangle
PngCapture(p) ==
    /\ pc[p] = "r_png_capture"
    /\ Shoot(p, "png", "r_png_reset", "CaptureError")
    /\ UNCHANGED <<buildvars, run, mu, allocCtx, browserCtx, envvars, caller, handle, epoch, liveAtReturn, outFormat,
                   expired, atDeadline, peers, capvars, resultJSON, pagevars>>

\* renderer.go:296-300, 350-354  _ = chromedp.Run(reset of the override); the
\* error is dropped and the bytes d are returned.
ResetBg(p, d) ==
    /\ \E ok \in RunOutcomes(p) : override' = [override EXCEPT ![p] = IF ok THEN FALSE ELSE @]
    /\ ExtractEnds(p, TRUE, TRUE)
    /\ RenderDone(p, d)

\* renderer.go:296-302
PngReset(p) ==
    /\ pc[p] = "r_png_reset"
    /\ ResetBg(p, "png")
    /\ UNCHANGED <<buildvars, run, mu, allocCtx, browserCtx, envvars, caller, handle, epoch, liveAtReturn, outFormat,
                   expired, atDeadline, peers, opts, bounds, resultJSON, pagevars>>

\* renderer.go:308-314
PdfSetBg(p) ==
    /\ pc[p] = "r_pdf_bg"
    /\ SetBg(p, IF opts[p].fit THEN "r_pdf_bounds" ELSE "r_pdf_print")
    /\ UNCHANGED <<buildvars, run, mu, allocCtx, browserCtx, envvars, caller, handle, epoch, liveAtReturn, outFormat,
                   expired, atDeadline, peers, opts, bounds, resultJSON, pagevars>>

\* renderer.go:318-322  under opts.PdfFit
PdfBounds(p) ==
    /\ pc[p] = "r_pdf_bounds"
    /\ GetBounds(p, "r_pdf_print")
    /\ UNCHANGED <<buildvars, run, mu, allocCtx, browserCtx, envvars, caller, handle, epoch, liveAtReturn, outFormat,
                   expired, atDeadline, peers, opts, override, resultJSON, pagevars>>

\* renderer.go:316-347  page.PrintToPDF
PdfPrint(p) ==
    /\ pc[p] = "r_pdf_print"
    /\ Shoot(p, "pdf", "r_pdf_reset", "PDFError")
    /\ UNCHANGED <<buildvars, run, mu, allocCtx, browserCtx, envvars, caller, handle, epoch, liveAtReturn, outFormat,
                   expired, atDeadline, peers, capvars, resultJSON, pagevars>>

\* renderer.go:350-356
PdfReset(p) ==
    /\ pc[p] = "r_pdf_reset"
    /\ ResetBg(p, "pdf")
    /\ UNCHANGED <<buildvars, run, mu, allocCtx, browserCtx, envvars, caller, handle, epoch, liveAtReturn, outFormat,
                   expired, atDeadline, peers, opts, bounds, resultJSON, pagevars>>

\* renderer.go:45  the 60 s deadline of the call passes
Expire(p) ==
    /\ tab[p] = "open"
    /\ ~expired[p]
    /\ expired' = [expired EXCEPT ![p] = TRUE]
    /\ atDeadline' = [atDeadline EXCEPT ![p] = record[p]]
    /\ peers' = [peers EXCEPT ![p] = {q \in Procs \ {p} : tab[q] = "open"}]
    /\ UNCHANGED <<buildvars, run, bvars, envvars, callvars, tab, target, capvars, resultJSON, log, pagevars>>


\* ------------------------------------- the page's driver script (template.go)
\* script: 0 no page; 1 renderDiagram() about to start; 2 resumed after the
\* awaited registerExternalDiagrams; 4 awaiting mermaid.render; ScriptDone after
\* the record was written.  JavaScript runs each stretch between two awaits to
\* completion, so a stretch is one step for the driver.
ScriptDone == 9

\* The page of call p exists and its chrome process runs.
PageRuns(p) == tab[p] = "open" /\ Alive(handle[p])

\* template.go:123-125  catch (e) { window.__mmd_result = {error, success:false} }
\* ends renderDiagram(): nothing of the try block runs after it.
Caught_GoesOn(p) ==
    /\ record' = [record EXCEPT ![p] = "fail"]
    /\ script' = [script EXCEPT ![p] = 4]

Caught(p) ==
    /\ record' = [record EXCEPT ![p] = "fail"]
    /\ script' = [script EXCEPT ![p] = ScriptDone]

\* template.go:77-83  step 1: await mermaid.registerExternalDiagrams(...)
PageRegister(p) ==
    /\ PageRuns(p)
    /\ script[p] = 1
    /\ \E throws \in BOOLEAN :
         IF throws
           THEN Caught(p)
           ELSE /\ script' = [script EXCEPT ![p] = 2]
                /\ record' = record
    /\ UNCHANGED <<buildvars, run, bvars, envvars, callvars, tabvars, svgIn, svgEver, meta>>

\* template.go:85-95  steps 2-4: registerIconPacks, initialize, and the call of
\* mermaid.render(svgId, definition, container); the library is handed the
\* container and may build its working svg element inside it while it renders.
PageInitRender(p) ==
    /\ PageRuns(p)
    /\ script[p] = 2
    /\ \E throws \in BOOLEAN :
         IF throws
           THEN /\ Caught(p)
                /\ UNCHANGED <<svgIn, svgEver>>
           ELSE /\ script' = [script EXCEPT ![p] = 4]
                /\ record' = record
                /\ \E inserts \in BOOLEAN :
                     /\ svgIn' = [svgIn EXCEPT ![p] = inserts]
                     /\ svgEver' = [svgEver EXCEPT ![p] = @ \/ inserts]
    /\ UNCHANGED <<buildvars, run, bvars, envvars, callvars, tabvars, meta>>

\* template.go:95-122  mermaid.render settles.  Rejected: the catch block runs
\* (the library keeps or removes what it put in the container).  Resolved: steps
\* 5-9 run in one stretch: container.innerHTML = svgText, background, stylesheet,
\* metadata, window.__mmd_result = {title, desc, success:true}.
PageRendered(p) ==
    /\ PageRuns(p)
    /\ script[p] = 4
    /\ \E throws \in BOOLEAN :
         IF throws
           THEN /\ Caught(p)
                /\ \E kept \in {svgIn[p], FALSE} : svgIn' = [svgIn EXCEPT ![p] = kept]
                /\ UNCHANGED <<svgEver, meta>>
           ELSE /\ svgIn' = [svgIn EXCEPT ![p] = TRUE]
                /\ svgEver' = [svgEver EXCEPT ![p] = TRUE]
                /\ \E m \in Metas : meta' = [meta EXCEPT ![p] = m]
                /\ record' = [record EXCEPT ![p] = "ok"]
                /\ script' = [script EXCEPT ![p] = ScriptDone]
    /\ UNCHANGED <<buildvars, run, bvars, envvars, callvars, tabvars>>

\* -------------------------------------------------------- specification
\* Spec: goroutines that call Browser.Context and Browser.Close directly, and
\* callers that cancel the ctx they passed.
Next ==
    \/ \E p \in Procs : CallContext(p)
    \/ \E p \in Procs : CtxLock(p)
    \/ \E p \in Procs : CtxCheck(p)
    \/ \E p \in Procs : CtxLaunch(p)
    \/ \E p \in Procs : CtxRun(p)
    \/ \E L \in Launches : CancelLaunchCtx(L)
    \/ \E p \in Procs : CallClose(p)
    \/ \E p \in Procs : CloseLock(p)
    \/ \E p \in Procs : CloseBody(p)

Spec == Init /\ [][Next]_vars

\* SpecRender: the program as run() drives it.  Its goroutine Main calls
\* Renderer.Render with context.Background(), one call after the other; any
\* goroutine may call Renderer.Close; the pages of the calls run on their own.
NextRender ==
    \/ CallRender(Main)
    \/ \E p \in Procs : CtxLock(p)
    \/ \E p \in Procs : CtxCheck(p)
    \/ \E p \in Procs : CtxLaunch(p)
    \/ \E p \in Procs : CtxRun(p)
    \/ \E p \in Procs : CallClose(p)
    \/ \E p \in Procs : CloseLock(p)
    \/ \E p \in Procs : CloseBody(p)
    \/ \E p \in Procs : RenderOpenTab(p)
    \/ \E p \in Procs : RenderBuild(p)
    \/ \E p \in Procs : RenderViewport(p)
    \/ \E p \in Procs : RenderNavigate(p)
    \/ \E p \in Procs : RenderSetContent(p)
    \/ \E p \in Procs : RenderWaitOK(p)
    \/ \E p \in Procs : RenderWaitFail(p)
    \/ \E p \in Procs : RenderWaitDiag(p)
    \/ \E p \in Procs : RenderRead(p)
    \/ \E p \in Procs : RenderExtract(p)
    \/ \E p \in Procs : ExtractSVG(p)
    \/ \E p \in Procs : PngBounds(p)
    \/ \E p \in Procs : PngResize(p)
    \/ \E p \in Procs : PngSetBg(p)
    \/ \E p \in Procs : PngCapture(p)
    \/ \E p \in Procs : PngReset(p)
    \/ \E p \in Procs : PdfSetBg(p)
    \/ \E p \in Procs : PdfBounds(p)
    \/ \E p \in Procs : PdfPrint(p)
    \/ \E p \in Procs : PdfReset(p)
    \/ \E p \in Procs : Expire(p)
    \/ \E p \in Procs : PageRegister(p)
    \/ \E p \in Procs : PageInitRender(p)
    \/ \E p \in Procs : PageRendered(p)

SpecRender == Init /\ [][NextRender]_vars

\* SpecPair: as SpecRender, with NumRenderers goroutines that call
\* Renderer.Render on the one Renderer concurrently.
NextPair ==
    \/ \E p \in Renderers : CallRender(p)
    \/ NextRender

SpecPair == Init /\ [][NextPair]_vars

\* ------------------------------------------------ run (part_000:232-326)
\* run.at is the position of run(): "setup" after `defer r.Close()` (line
\* 235), "loop" at the head of the loop over the diagrams of a markdown input,
\* "single" before the one Render of another input, "rendering" inside a
\* Render call, "return" at a return statement, "closing" inside the deferred
\* r.Close(), "exited" when run has returned.
\* run.markdown: the input is a markdown file; run.stdout: output is
\* /dev/stdout; run.mdOut: the output is a markdown file; run.n: diagrams of
\* the markdown input; run.todo: those not yet rendered; run.renders,
\* run.closes: Render and Close calls made; run.imageRefs: the local imageRefs;
\* run.events: the Render calls, their returns and the file writes, in order.
Runs ==
    {r \in [at : {"setup"}, markdown : BOOLEAN, stdout : BOOLEAN, mdOut : BOOLEAN,
            n : 0..MaxDiagrams, todo : 0..MaxDiagrams, renders : {0}, closes : {0},
            imageRefs : {<<>>}, events : {<<>>}] :
       /\ r.todo = r.n
       /\ ~(r.stdout /\ r.mdOut)
       /\ ~r.markdown => r.n = 0 /\ ~r.mdOut}

\* part_000:262, 279  diagram.Index of the diagram the loop is at
DiagramIndex(r) == IF r.markdown THEN r.n - r.todo + 1 ELSE 0

\* part_000:288-292  markdown.ImageRef{URL: the file of diagram k, Alt: result.Desc,
\* Title: result.Title}
NewImageRef(k, res) == [URL |-> k, Alt |-> res.desc, Title |-> res.title]

Called(k) == [ev |-> "render", k |-> k]
RenderEnded(k, e, res) == [ev |-> "rendered", k |-> k, ok |-> e = "nil", result |-> res]
Wrote(k, ok, d) == [ev |-> "write", k |-> k, ok |-> ok, data |-> d]
WroteMarkdown(ok, refs) == [ev |-> "mdwrite", k |-> 0, ok |-> ok, refs |-> refs]

\* part_000:284-286  if err := os.WriteFile(...); err != nil { return ... }
WriteFailed_Ignored(written) == FALSE

WriteFailed(written) == ~written

\* A return statement of run that skips the deferred call.
OnReturn_NoDefer == "exited"

\* part_000:235  defer r.Close(): every return statement runs it first
OnReturn == "return"

\* What only run changes in a step of its own.
RunOnly == UNCHANGED <<bvars, envvars, callvars, tabvars, pagevars, buildvars>>

\* part_000:239-245, 296-298  the branch on the kind of input
RunBranch ==
    /\ run.at = "setup"
    /\ run' = [run EXCEPT !.at = IF ~run.markdown THEN "single"
                                 ELSE IF run.stdout THEN OnReturn ELSE "loop"]
    /\ RunOnly

\* part_000:279, 299  r.Render(ctx, ..., outputFormat, renderOpts)
RunCallRender ==
    /\ run.at = "single" \/ (run.at = "loop" /\ run.todo > 0)
    /\ LaunchBudget
    /\ Begin(Main, "render", "ctx_lock")
    /\ run' = [run EXCEPT !.at = "rendering", !.renders = @ + 1,
                          !.events = Append(@, Called(DiagramIndex(run)))]

\* part_000:280-295, 300-312  the error check after Render, then the write of
\* result.Data, which can fail
RunRendered ==
    /\ run.at = "rendering"
    /\ pc[Main] = "idle"
    /\ LET k == DiagramIndex(run)
           returned == Append(run.events, RenderEnded(k, err[Main], result[Main]))
       IN  IF err[Main] # "nil"
             THEN run' = [run EXCEPT !.at = OnReturn, !.events = returned]
             ELSE \E written \in BOOLEAN :
                    run' = [run EXCEPT
                              !.at = IF WriteFailed(written) \/ ~run.markdown
                                       THEN OnReturn ELSE "loop",
                              !.todo = IF run.markdown THEN @ - 1 ELSE @,
                              !.imageRefs = IF written /\ run.markdown
                                              THEN Append(@, NewImageRef(k, result[Main]))
                                              ELSE @,
                              !.events = Append(returned, Wrote(k, written, result[Main].data))]
    /\ RunOnly

\* part_000:297-306, 315  after the last diagram: the markdown output is
\* written when asked for, and run returns whether or not that write failed
RunReplace ==
    /\ run.at = "loop"
    /\ run.todo = 0
    /\ \E written \in BOOLEAN :
         run' = [run EXCEPT !.at = OnReturn,
                            !.events = IF run.mdOut
                                         THEN Append(@, WroteMarkdown(written, run.imageRefs))
                                         ELSE @]
    /\ RunOnly

\* part_000:235, renderer.go:156-159  the deferred r.Close() calls Browser.Close
RunDeferredClose ==
    /\ run.at = "return"
    /\ Begin(Main, "close", "close_lock")
    /\ run' = [run EXCEPT !.at = "closing", !.closes = @ + 1]

\* run has returned to its caller
RunExit ==
    /\ run.at = "closing"
    /\ pc[Main] = "idle"
    /\ run' = [run EXCEPT !.at = "exited"]
    /\ RunOnly

InitRun ==
    /\ InitSession
    /\ buildIn = NoInput
    /\ png = NoPng
    /\ buildOut = NoOutput
    /\ arg = NoArg
    /\ ret = NoRet
    /\ run \in Runs

\* SpecRun: one call of run() on its goroutine Main, from the setup of the
\* renderer on, with the steps of the Render and Close calls it makes.
NextRun ==
    \/ RunBranch
    \/ RunCallRender
    \/ RunRendered
    \/ RunReplace
    \/ RunDeferredClose
    \/ RunExit
    \/ CtxLock(Main)
    \/ CtxCheck(Main)
    \/ CtxLaunch(Main)
    \/ CtxRun(Main)
    \/ CloseLock(Main)
    \/ CloseBody(Main)
    \/ RenderOpenTab(Main)
    \/ RenderBuild(Main)
    \/ RenderViewport(Main)
    \/ RenderNavigate(Main)
    \/ RenderSetContent(Main)
    \/ RenderWaitOK(Main)
    \/ RenderWaitFail(Main)
    \/ RenderWaitDiag(Main)
    \/ RenderRead(Main)
    \/ RenderExtract(Main)
    \/ ExtractSVG(Main)
    \/ PngBounds(Main)
    \/ PngResize(Main)
    \/ PngSetBg(Main)
    \/ PngCapture(Main)
    \/ PngReset(Main)
    \/ PdfSetBg(Main)
    \/ PdfBounds(Main)
    \/ PdfPrint(Main)
    \/ PdfReset(Main)
    \/ Expire(Main)
    \/ PageRegister(Main)
    \/ PageInitRender(Main)
    \/ PageRendered(Main)

SpecRun == InitRun /\ [][NextRun]_vars

\* SpecExtract: the format switch of Render and the extraction functions it
\* calls (extractSVG, extractSVGFit, capturePNG, capturePDF), entered by Main
\* after a successful read on a page whose container holds an svg element or,
\* the case these functions guard against, holds none.
InitExtract ==
    /\ mu = NoProc
    /\ started = TRUE
    /\ allocCtx = 1
    /\ browserCtx = 1
    /\ launchCount = 1
    /\ confirmed = [L \in Launches |-> IF L = 1 THEN "ok" ELSE "none"]
    /\ launchCtxDone = [L \in Launches |-> FALSE]
    /\ allocCancels = [L \in Launches |-> 0]
    /\ browserCancels = [L \in Launches |-> 0]
    /\ closeCount = 0
    /\ pc = [p \in Procs |-> IF p = Main THEN "r_extract" ELSE "idle"]
    /\ caller = [p \in Procs |-> IF p = Main THEN "render" ELSE "none"]
    /\ handle = [p \in Procs |-> IF p = Main THEN 1 ELSE NilCtx]
    /\ err = [p \in Procs |-> "nil"]
    /\ epoch = [p \in Procs |-> 0]
    /\ liveAtReturn = [p \in Procs |-> p = Main]
    /\ outFormat = [p \in Procs |-> "none"]
    /\ tab = [p \in Procs |-> IF p = Main THEN "open" ELSE "none"]
    /\ target = [p \in Procs |-> IF p = Main THEN 1 ELSE NoTarget]
    /\ expired = [p \in Procs |-> FALSE]
    /\ atDeadline = [p \in Procs |-> "none"]
    /\ peers = [p \in Procs |-> {}]
    /\ script = [p \in Procs |-> IF p = Main THEN ScriptDone ELSE 0]
    /\ record = [p \in Procs |-> IF p = Main THEN "ok" ELSE "none"]
    /\ \E present \in BOOLEAN : svgIn = [p \in Procs |-> p = Main /\ present]
    /\ svgEver = [p \in Procs |-> p = Main]
    /\ \E m \in Metas :
         /\ meta = [p \in Procs |-> IF p = Main THEN m ELSE NoMeta]
         /\ result = [p \in Procs |->
                        IF p = Main
                          THEN [title |-> FromJSON(m[1]), desc |-> FromJSON(m[2]), data |-> "none"]
                          ELSE NoResult]
    /\ resultJSON = [p \in Procs |-> IF p = Main THEN RecordJSON("ok") ELSE ""]
    /\ log = [p \in Procs |->
                IF p = Main
                  THEN <<<<"viewport", TRUE, TRUE>>, <<"navigate", TRUE, TRUE>>,
                         <<"content", TRUE, TRUE>>, <<"wait", TRUE, TRUE>>, <<"read", TRUE, TRUE>>>>
                  ELSE <<>>]
    /\ opts = [p \in Procs |-> NoOpts]
    /\ override = [p \in Procs |-> FALSE]
    /\ bounds = [p \in Procs |-> "none"]
    /\ buildIn = NoInput
    /\ png = NoPng
    /\ buildOut = NoOutput
    /\ arg = NoArg
    /\ ret = NoRet
    /\ run = NoRun

NextExtract ==
    \/ \E p \in Procs : RenderExtract(p)
    \/ \E p \in Procs : ExtractSVG(p)
    \/ \E p \in Procs : PngBounds(p)
    \/ \E p \in Procs : PngResize(p)
    \/ \E p \in Procs : PngSetBg(p)
    \/ \E p \in Procs : PngCapture(p)
    \/ \E p \in Procs : PngReset(p)
    \/ \E p \in Procs : PdfSetBg(p)
    \/ \E p \in Procs : PdfBounds(p)
    \/ \E p \in Procs : PdfPrint(p)
    \/ \E p \in Procs : PdfReset(p)
    \/ \E p \in Procs : Expire(p)
    \/ \E p \in Procs : CallClose(p)
    \/ \E p \in Procs : CloseLock(p)
    \/ \E p \in Procs : CloseBody(p)

SpecExtract == InitExtract /\ [][NextExtract]_vars

\* SpecBuild: BuildPageHTML as a function, applied once to arguments drawn
\* from Inputs.
InitBuild ==
    /\ InitSession
    /\ buildIn \in Inputs
    /\ png = NoPng
    /\ buildOut = NoOutput
    /\ arg = NoArg
    /\ ret = NoRet
    /\ run = NoRun

\* template.go:28-133
Build ==
    /\ ~buildOut.done
    /\ buildOut' = BuildPageHTML(buildIn)
    /\ UNCHANGED <<bvars, envvars, callvars, tabvars, pagevars, buildIn, arg, ret, png, run>>

NextBuild == Build

SpecBuild == InitBuild /\ [][NextBuild]_vars

\* ------------------------------------------ functions without side effects
\* One call of a function: the argument was drawn by the initial condition,
\* the step stores what the function returns.
Apply(f, v) ==
    /\ arg.fn = f
    /\ ret = NoRet
    /\ ret' = v
    /\ UNCHANGED <<bvars, envvars, callvars, tabvars, pagevars, buildIn, buildOut, arg, png, run>>

InitCall(args) ==
    /\ InitSession
    /\ buildIn = NoInput
    /\ png = NoPng
    /\ buildOut = NoOutput
    /\ arg \in args
    /\ ret = NoRet
    /\ run = NoRun

\* ---------------------------------- metadata of the svg (template.go:109-120)
\* A child node of the svg element: nodeName, textContent, and whether it is
\* an element (svg.children) or a text node (svg.childNodes only).
Node(n, t) == [nodeName |-> n, textContent |-> t, element |-> n # "#text"]
Nodes == {Node("title", "a"), Node("title", "b"), Node("desc", "a"),
          Node("desc", "b"), Node("g", ""), Node("#text", " ")}
ChildLists == UNION {[1..n -> Nodes] : n \in 0..MaxKids}
MetaArgs == {[fn |-> "metadata", childNodes |-> k] : k \in ChildLists}

\* template.go:112-114  svg.firstChild && svg.firstChild.nodeName === 'title'
Title(childNodes) ==
    IF childNodes # <<>> /\ childNodes[1].nodeName = "title"
    THEN childNodes[1].textContent
    ELSE Null

\* template.go:115  svg.children: the child nodes that are elements
Children(childNodes) == SelectSeq(childNodes, LAMBDA n : n.element)

\* template.go:115-120  for (const node of svg.children) ... break
RECURSIVE Desc(_)
Desc(children) ==
    IF children = <<>> THEN Null
    ELSE IF Head(children).nodeName = "desc" THEN Head(children).textContent
    ELSE Desc(Tail(children))

\* template.go:110-122  let title = null; let desc = null; ... { title, desc, success: true }
Metadata == Apply("metadata", [fn |-> "metadata", title |-> Title(arg.childNodes),
                               desc |-> Desc(Children(arg.childNodes))])

InitMetadata == InitCall(MetaArgs)
NextMetadata == Metadata
SpecMetadata == InitMetadata /\ [][NextMetadata]_vars

\* ------------------------------------ extractSVGFit (renderer.go:182-208)
\* The svg element as the script sees it: the viewBox attribute, the width and
\* height attributes and the max-width of its style.  An attribute or style
\* property is None when it is not set and Some(text) when it is.
None == <<>>
Some(text) == <<text>>
Space == " "
ViewChars == {"1", "2", Space}
ViewBoxes == UNION {[1..n -> ViewChars] : n \in 0..MaxView}
Rendered100 == [width |-> Some(<<"1", "0", "0", "%">>), height |-> None,
                maxWidth |-> Some(<<"5", "0", "0", "p", "x">>)]
FitArgs == {[fn |-> "svgfit", viewBox |-> v] : v \in {Some(t) : t \in ViewBoxes} \cup {None}}

\* The end of the run of whitespace that starts at i: the first index after i
\* that holds no whitespace (the regular expression \s+ is greedy).
RECURSIVE RunEnd(_, _)
RunEnd(s, i) ==
    IF i <= Len(s) /\ s[i] = Space THEN RunEnd(s, i + 1) ELSE i

\* String.prototype.split with the separator /\s+/: every maximal run of
\* whitespace ends one component, empty components at the ends are kept.
RECURSIVE SplitFrom(_, _, _, _)
SplitFrom(s, i, cur, out) ==
    IF i > Len(s) THEN Append(out, cur)
    ELSE IF s[i] = Space THEN SplitFrom(s, RunEnd(s, i), <<>>, Append(out, cur))
    ELSE SplitFrom(s, i + 1, Append(cur, s[i]), out)

\* A split that drops the empty components, as strings.Fields would.
Split_Fields(s) == SelectSeq(SplitFrom(s, 1, <<>>, <<>>), LAMBDA c : c # <<>>)

\* renderer.go:190  viewBox.split(/\s+/)
Split(s) == SplitFrom(s, 1, <<>>, <<>>)

\* renderer.go:188-196  the attributes after the script has run
SVGFit(viewBox, svg) ==
    IF viewBox # None /\ viewBox[1] # <<>> /\ Len(Split(viewBox[1])) = 4
    THEN [width |-> Some(Split(viewBox[1])[3]), height |-> Some(Split(viewBox[1])[4]),
          maxWidth |-> None]
    ELSE svg

ExtractSVGFit == Apply("svgfit", [fn |-> "svgfit", svg |-> SVGFit(arg.viewBox, Rendered100)])

InitFit == InitCall(FitArgs)
NextFit == ExtractSVGFit
SpecFit == InitFit /\ [][NextFit]_vars

\* ------------------- clip rectangle (renderer.go:219-243, renderer.go:264-270)
\* Lengths are fixed-point numbers: whole multiples of 1/Grid of a CSS pixel,
\* written as the number of such units.
Offsets == 0..(MaxPx * Grid)
Sizes == 1..(MaxPx * Grid)
Rects == [left : Offsets, top : Offsets, width : Sizes, height : Sizes]
ClipArgs == {[fn |-> "clip", rect |-> r] : r \in Rects}

\* Math.floor and Math.ceil on fixed-point numbers
Floor(v) == (v \div Grid) * Grid
Ceil(v) == ((v + Grid - 1) \div Grid) * Grid

\* renderer.go:225-231  the rectangle getSVGBounds returns for an svg element
BoundsOf(rect) == [X |-> Floor(rect.left), Y |-> Floor(rect.top),
                   Width |-> Ceil(rect.width), Height |-> Ceil(rect.height)]

\* renderer.go:264-270  clip := &page.Viewport{X: bounds.X, ..., Scale: 1}
ClipOf(b) == [X |-> b.X, Y |-> b.Y, Width |-> b.Width, Height |-> b.Height, Scale |-> Grid]

PngClip == Apply("clip", [fn |-> "clip", clip |-> ClipOf(BoundsOf(arg.rect))])

InitClip == InitCall(ClipArgs)
NextClip == PngClip
SpecClip == InitClip /\ [][NextClip]_vars

\* ------------------------------- print parameters (renderer.go:316-338)
\* renderer.go:223  the rectangle getSVGBounds returns when there is no svg
DefaultBounds == [X |-> 0, Y |-> 0, Width |-> 800 * Grid, Height |-> 600 * Grid]

\* The rectangles getSVGBounds can return
PageBounds == {BoundsOf(r) : r \in Rects} \cup {DefaultBounds}
PdfArgs == {[fn |-> "pdf", PdfFit |-> f, bounds |-> b] : f \in BOOLEAN, b \in PageBounds}

\* page.PrintToPDF(): no parameter set
PrintToPDF == [paperWidth |-> None, paperHeight |-> None, marginTop |-> None,
               marginBottom |-> None, marginLeft |-> None, marginRight |-> None,
               pageRanges |-> None, printBackground |-> None]

\* A length in typographic points (1/72 inch), where the code divides by 96.
Inches_Points(v) == [num |-> v, den |-> 72 * Grid]

\* renderer.go:324-326  px / 96.0: a length in inches, as a fraction
Inches(v) == [num |-> v, den |-> 96 * Grid]

\* renderer.go:316-338  printParams as handed to Do
PrintParams(fit, b) ==
    LET fitted == [PrintToPDF EXCEPT
                     !.paperWidth = Some(Inches(Ceil(b.Width) + b.X * 2)),
                     !.paperHeight = Some(Inches(Ceil(b.Height) + b.Y * 2)),
                     !.marginTop = Some(0), !.marginBottom = Some(0),
                     !.marginLeft = Some(0), !.marginRight = Some(0),
                     !.pageRanges = Some(<<"1", "-", "1">>)]
    IN  [(IF fit THEN fitted ELSE PrintToPDF) EXCEPT !.printBackground = Some(TRUE)]

PdfParams == Apply("pdf", [fn |-> "pdf", params |-> PrintParams(arg.PdfFit, arg.bounds)])

InitPdf == InitCall(PdfArgs)
NextPdf == PdfParams
SpecPdf == InitPdf /\ [][NextPdf]_vars

\* ----------------------------------- package markdown (part_000:601-688)
\* A markdown text is the sequence of its lines, a line the sequence of the
\* pieces of text it is made of.  The lines drawn are the two opening fences
\* of a mermaid block, the two closing fences, a line of text and the opening
\* fence of a block in another language.  Three backticks are written as in
\* the regular expression of the source.
BacktickFence == "\\x60\\x60\\x60"
ColonFence == ":::"
Fences == {BacktickFence, ColonFence}
Ln(text) == <<text>>
Lines == {<<f, "mermaid">> : f \in Fences} \cup {Ln(f) : f \in Fences}
           \cup {Ln("A-->B"), <<BacktickFence, "go">>}
Contents == UNION {[1..n -> Lines] : n \in 0..MaxLines}

\* part_000:611  ^[^\S\n]*[\x60:]{3}(?:mermaid)[^\S\n]*\r?\n : a line that opens a block
IsOpen(line) == Len(line) = 2 /\ line[1] \in Fences /\ line[2] = "mermaid"

\* part_000:611  [\x60:]{3}[^\S\n]*$ : a line that ends in three fence characters
IsFence(line) == line[Len(line)] \in Fences

\* part_000:611  ([\s\S]*?) is lazy: the block ends at the first line at or
\* after i that ends in a fence; 0 when there is none.
RECURSIVE FirstFence(_, _)
FirstFence(content, i) ==
    IF i > Len(content) THEN 0
    ELSE IF IsFence(content[i]) THEN i
    ELSE FirstFence(content, i + 1)

\* regexp.FindAllStringSubmatch(content, -1): the matches from left to right,
\* none overlapping another, each as <<first line, last line>>.
RECURSIVE FindAll(_, _, _)
FindAll(content, i, out) ==
    IF i > Len(content) THEN out
    ELSE IF IsOpen(content[i]) /\ FirstFence(content, i + 1) # 0
      THEN FindAll(content, FirstFence(content, i + 1) + 1,
                   Append(out, <<i, FirstFence(content, i + 1)>>))
    ELSE FindAll(content, i + 1, out)

\* An index that counts from zero.
IndexOf_ZeroBased(i) == i

\* part_000:632  Index: i + 1, for the i of `for i, match := range matches`
IndexOf(i) == i + 1

\* part_000:623-637  ExtractDiagrams
ExtractDiagrams(content) ==
    LET matches == FindAll(content, 1, <<>>)
    IN  [k \in 1..Len(matches) |->
           [FullMatch |-> SubSeq(content, matches[k][1], matches[k][2]),
            Definition |-> SubSeq(content, matches[k][1] + 1, matches[k][2] - 1),
            Index |-> IndexOf(k - 1)]]

\* part_000:640-644  ImageRef; the images of a run, of which a call gets the
\* first few
ImageRef(url, alt, title) == [URL |-> url, Alt |-> alt, Title |-> title]
AllImages == <<ImageRef("./out-1.svg", "First", ""), ImageRef("./out-2.svg", "", "T"),
               ImageRef("./out-3.svg", "Third", "")>>
ImageLists == {SubSeq(AllImages, 1, n) : n \in 0..MaxImages}

\* part_000:647-658  MarkdownImage: ![alt](url "title") or ![alt](url)
MarkdownImage(ref) ==
    LET alt == IF ref.Alt = "" THEN "diagram" ELSE ref.Alt
    IN  IF ref.Title # ""
        THEN <<"![", alt, "](", ref.URL, " \"", ref.Title, "\")">>
        ELSE <<"![", alt, "](", ref.URL, ")">>

\* An index that is not advanced.
NextIdx_Stuck(idx) == idx

\* part_000:668  idx++
NextIdx(idx) == idx + 1

\* part_000:662-670  regexp.ReplaceAllStringFunc: the text between the matches
\* is copied, every match is replaced by what the function returns for it.
\* pos is the first line not yet copied, idx the idx of the closure.
RECURSIVE ReplaceAll(_, _, _, _, _, _)
ReplaceAll(content, matches, pos, idx, images, out) ==
    IF matches = <<>> THEN out \o SubSeq(content, pos, Len(content))
    ELSE LET m == Head(matches)
             before == SubSeq(content, pos, m[1] - 1)
             match == SubSeq(content, m[1], m[2])
         IN  IF idx >= Len(images)
             THEN ReplaceAll(content, Tail(matches), m[2] + 1, idx, images,
                             out \o before \o match)
             ELSE ReplaceAll(content, Tail(matches), m[2] + 1, NextIdx(idx), images,
                             out \o before \o <<MarkdownImage(images[idx + 1])>>)

\* part_000:660-671  ReplaceDiagrams
ReplaceDiagrams(content, images) ==
    ReplaceAll(content, FindAll(content, 1, <<>>), 1, 0, images, <<>>)

MarkdownArgs ==
    {[fn |-> "extract", content |-> c] : c \in Contents}
      \cup {[fn |-> "replace", content |-> c, images |-> i] : c \in Contents, i \in ImageLists}

Extract == Apply("extract", [fn |-> "extract", blocks |-> ExtractDiagrams(arg.content)])

Replace == Apply("replace", [fn |-> "replace", out |-> ReplaceDiagrams(arg.content, arg.images)])

InitMarkdown == InitCall(MarkdownArgs)
NextMarkdown == Extract \/ Replace
SpecMarkdown == InitMarkdown /\ [][NextMarkdown]_vars

\* ------------------------------------- icon packs (browser.go:111-125)
\* The values of the --iconPacksNamesAndUrls flag: strings of a letter and '#'
Hash == "#"
EntryChars == {"a", Hash}
Entries == UNION {[1..n -> EntryChars] : n \in 0..MaxEntry}
PackLists == UNION {[1..n -> Entries] : n \in 0..MaxPacks}
IconArgs == {[fn |-> "icons", packs |-> l] : l \in PackLists}

\* strings.LastIndex: the index of the last '#', counted from 0; -1 when there is none
Index_Last(pack) ==
    IF \A i \in 1..Len(pack) : pack[i] # Hash THEN -1
    ELSE (CHOOSE i \in 1..Len(pack) :
            pack[i] = Hash /\ \A j \in (i + 1)..Len(pack) : pack[j] # Hash) - 1

\* browser.go:116  strings.Index(pack, "#"): the index of the first '#',
\* counted from 0; -1 when there is none
Index(pack) ==
    IF \A i \in 1..Len(pack) : pack[i] # Hash THEN -1
    ELSE (CHOOSE i \in 1..Len(pack) :
            pack[i] = Hash /\ \A j \in 1..(i - 1) : pack[j] # Hash) - 1

\* browser.go:115-123  the loop over packs, parsed being the result so far
RECURSIVE ParseFrom(_, _)
ParseFrom(packs, parsed) ==
    IF packs = <<>> THEN parsed
    ELSE LET pack == Head(packs)
             idx == Index(pack)
         IN  IF idx < 0
             THEN ParseFrom(Tail(packs), parsed)
             ELSE ParseFrom(Tail(packs),
                            Append(parsed, [Name |-> SubSeq(pack, 1, idx),
                                            URL |-> SubSeq(pack, idx + 2, Len(pack))]))

\* browser.go:113-125  ParseIconPacksNamesAndUrls
ParseIconPacksNamesAndUrls(packs) == ParseFrom(packs, <<>>)

ParseNamesAndUrls ==
    Apply("icons", [fn |-> "icons", result |-> ParseIconPacksNamesAndUrls(arg.packs)])

\* Icon packs as GenerateIconPackJS gets them: one pack with any name and URL
\* of up to MaxLen characters (a letter, quote, backslash, "<"), before or
\* after some of two packs of the tests; or no pack at all.
IconChars == {"a", "\"", "\\", "<"}
IconTexts == UNION {[1..n -> IconChars] : n \in 0..MaxLen}
IconPack(name, url) == [Name |-> name, URL |-> url]
TestPacks == <<IconPack(<<"l", "o", "g", "o", "s">>, <<"l", ".", "j", "s", "o", "n">>),
               IconPack(<<"m", "d", "i">>, <<"m", ".", "j", "s", "o", "n">>)>>
JSPackLists ==
    {<<>>} \cup UNION {{<<IconPack(n, u)>> \o SubSeq(TestPacks, 1, k),
                        SubSeq(TestPacks, 1, k) \o <<IconPack(n, u)>>} :
                         n \in IconTexts, u \in IconTexts, k \in 0..(MaxPacks - 1)}
JSArgs == {[fn |-> "iconjs", packs |-> l] : l \in JSPackLists}

\* browser.go:128-144, template.go:54, 85  GenerateIconPackJS(opts.IconPacks)
\* and the page BuildPageHTML builds with it
GenerateJS ==
    Apply("iconjs", [fn |-> "iconjs", js |-> GenerateIconPackJS(arg.packs),
                     page |-> BuildPageHTML([NoInput EXCEPT !.iconPacks = arg.packs]).html])

InitIcons == InitCall(IconArgs \cup JSArgs)
NextIcons == ParseNamesAndUrls \/ GenerateJS
SpecIcons == InitIcons /\ [][NextIcons]_vars

\* --------------------------------- LoadMermaidConfig (part_000:532-556)

\* A MermaidConfig is a mapping from keys to values; NilConfig is the nil map
\* returned next to an error.
NilConfig == <<>>
ConfigKeys == {"theme", "logLevel"}
ConfigValues == {"dark", "error", Null}
Themes == {"default", "forest"}
Pair(k, v) == [key |-> k, value |-> v]
Pairs == {Pair(k, v) : k \in ConfigKeys, v \in ConfigValues}
\* The file named by configFile: absent, or present with a text that is no
\* JSON, the JSON null, a JSON array, or a JSON object given as its members in
\* the order of the text (a key may occur more than once).
Members == UNION {[1..n -> Pairs] : n \in 0..MaxPairs}
Files ==
    {[kind |-> k, members |-> <<>>] : k \in {"missing", "garbage", "null", "array"}}
      \cup {[kind |-> "object", members |-> m] : m \in Members}
NoFile == [kind |-> "none", members |-> <<>>]
ConfigArgs ==
    {[fn |-> "config", configFile |-> "", theme |-> t, file |-> NoFile] : t \in Themes}
      \cup {[fn |-> "config", configFile |-> "config.json", theme |-> t, file |-> f] :
              t \in Themes, f \in Files}

\* cfg[k] = v
Put(cfg, k, v) == [x \in DOMAIN cfg \cup {k} |-> IF x = k THEN v ELSE cfg[x]]

\* json.Unmarshal into a map: the members are stored in the order of the text,
\* so a later member replaces an earlier one of the same key.
RECURSIVE Decode(_, _)
Decode(cfg, members) ==
    IF members = <<>> THEN cfg
    ELSE Decode(Put(cfg, Head(members).key, Head(members).value), Tail(members))

\* json.Unmarshal(data, &fileCfg): null leaves the map nil without an error; a
\* text that is no JSON, or JSON that is no object, is an error.
Unmarshal(file) ==
    CASE file.kind = "object" -> [err |-> FALSE, cfg |-> Decode(NilConfig, file.members)]
      [] file.kind = "null"   -> [err |-> FALSE, cfg |-> NilConfig]
      [] OTHER                -> [err |-> TRUE, cfg |-> NilConfig]

\* for k, v := range fileCfg { cfg[k] = v }
Merge_DefaultsWin(cfg, fileCfg) ==
    [k \in DOMAIN cfg \cup DOMAIN fileCfg |-> IF k \in DOMAIN cfg THEN cfg[k] ELSE fileCfg[k]]
Merge(cfg, fileCfg) ==
    [k \in DOMAIN cfg \cup DOMAIN fileCfg |-> IF k \in DOMAIN fileCfg THEN fileCfg[k] ELSE cfg[k]]

LoadMermaidConfig(configFile, theme, file) ==
    LET cfg == Put(NilConfig, "theme", theme)
    IN  IF configFile = "" THEN [err |-> FALSE, cfg |-> cfg]
        ELSE IF file.kind = "missing" THEN [err |-> TRUE, cfg |-> NilConfig]
        ELSE IF Unmarshal(file).err THEN [err |-> TRUE, cfg |-> NilConfig]
        ELSE [err |-> FALSE, cfg |-> Merge(cfg, Unmarshal(file).cfg)]

LoadConfig ==
    Apply("config",
          [fn |-> "config"] @@ LoadMermaidConfig(arg.configFile, arg.theme, arg.file))

InitConfig == InitCall(ConfigArgs)
NextConfig == LoadConfig
SpecConfig == InitConfig /\ [][NextConfig]_vars

\* --------------------------------------- capturePNG (renderer.go:246-303)
\* One call of capturePNG on a live page, with the commands it sends in the
\* order it sends them.  Lengths are in units of 1/Grid pixel as above.

\* The svg element's rectangle, or None when the container holds no svg.
PngRects ==
    [left : {1, Grid + 1}, top : {0, 2}, width : {Grid, Grid + 1}, height : {1, 2 * Grid}]
Scales == 1..MaxScale
PngCalls ==
    [at : {"bounds"}, element : {None} \cup {Some(r) : r \in PngRects}, Scale : Scales,
     transparent : BOOLEAN, bounds : {None}, cmds : {<<>>}, override : {FALSE},
     err : {"nil"}, buf : {"nil"}]

\* renderer.go:221-232  the script of getSVGBounds
BoundsJSON(element) == IF element = None THEN DefaultBounds ELSE BoundsOf(element[1])

\* renderer.go:253-257  int64(bounds.X + bounds.Width), int64(bounds.Y + bounds.Height),
\* float64(opts.Scale), mobile false; the sizes are whole pixels.
Metrics_SizeOnly(b, scale) ==
    [width |-> b.Width \div Grid, height |-> b.Height \div Grid,
     deviceScaleFactor |-> scale * Grid, mobile |-> FALSE]
Metrics(b, scale) ==
    [width |-> (b.X + b.Width) \div Grid, height |-> (b.Y + b.Height) \div Grid,
     deviceScaleFactor |-> scale * Grid, mobile |-> FALSE]

\* A command sent by chromedp.Run, with its parameters and whether it succeeded.
Sent(name, params, ok) == [cmd |-> name, params |-> params, ok |-> ok]

PngOnly == UNCHANGED <<bvars, envvars, callvars, tabvars, pagevars, buildIn, buildOut, arg, ret, run>>

\* return nil, err
PngFail(cmds, e) == png' = [png EXCEPT !.at = "done", !.cmds = cmds, !.err = e]

\* renderer.go:247-250  bounds, err := getSVGBounds(ctx)
CapBounds ==
    /\ png.at = "bounds"
    /\ \E ok \in BOOLEAN :
         LET cmds == Append(png.cmds, Sent("Runtime.evaluate", <<>>, ok))
         IN  IF ok
               THEN png' = [png EXCEPT !.at = "resize", !.cmds = cmds,
                                       !.bounds = Some(BoundsJSON(png.element))]
               ELSE PngFail(cmds, "BoundsError")
    /\ PngOnly

\* renderer.go:253-259  emulation.SetDeviceMetricsOverride
CapResize ==
    /\ png.at = "resize"
    /\ \E ok \in BOOLEAN :
         LET cmds == Append(png.cmds,
                            Sent("Emulation.setDeviceMetricsOverride",
                                 Metrics(png.bounds[1], png.Scale), ok))
         IN  IF ok THEN png' = [png EXCEPT !.at = "sleep", !.cmds = cmds]
                   ELSE PngFail(cmds, "ResizeError")
    /\ PngOnly

\* renderer.go:262  time.Sleep(100 * time.Millisecond)
CapSleep ==
    /\ png.at = "sleep"
    /\ png' = [png EXCEPT !.at = IF png.transparent THEN "bg" ELSE "capture",
                          !.cmds = Append(@, Sent("sleep", <<>>, TRUE))]
    /\ PngOnly

\* renderer.go:272-279  under BackgroundColor == "transparent"
CapSetBg ==
    /\ png.at = "bg"
    /\ \E ok \in BOOLEAN :
         LET cmds == Append(png.cmds,
                            Sent("Emulation.setDefaultBackgroundColorOverride",
                                 [r |-> 0, g |-> 0, b |-> 0, a |-> 0], ok))
         IN  IF ok THEN png' = [png EXCEPT !.at = "capture", !.cmds = cmds, !.override = TRUE]
                   ELSE PngFail(cmds, "SetBgError")
    /\ PngOnly

\* renderer.go:264-270, 281-293  page.CaptureScreenshot with the clip
CapShot ==
    /\ png.at = "capture"
    /\ \E ok \in BOOLEAN :
         LET cmds == Append(png.cmds,
                            Sent("Page.captureScreenshot",
                                 [format |-> "png", clip |-> ClipOf(png.bounds[1]),
                                  captureBeyondViewport |-> TRUE], ok))
         IN  IF ~ok THEN PngFail(cmds, "CaptureError")
             ELSE png' = [png EXCEPT !.at = IF png.transparent THEN "reset" ELSE "done",
                                     !.cmds = cmds, !.buf = "png"]
    /\ PngOnly

\* renderer.go:295-302  the reset, its error dropped; return buf, nil
CapReset ==
    /\ png.at = "reset"
    /\ \E ok \in BOOLEAN :
         png' = [png EXCEPT !.at = "done",
                            !.cmds = Append(@, Sent("Emulation.setDefaultBackgroundColorOverride",
                                                    <<>>, ok)),
                            !.override = IF ok THEN FALSE ELSE @]
    /\ PngOnly

InitPng ==
    /\ InitSession
    /\ buildIn = NoInput
    /\ buildOut = NoOutput
    /\ arg = NoArg
    /\ ret = NoRet
    /\ run = NoRun
    /\ png \in PngCalls
NextPng == CapBounds \/ CapResize \/ CapSleep \/ CapSetBg \/ CapShot \/ CapReset
SpecPng == InitPng /\ [][NextPng]_vars

\* ------------------------------------------------------------- properties
\* A direct Context call of p has returned a handle and no error.
Returned(p) == pc[p] = "idle" /\ caller[p] = "api" /\ err[p] = "nil" /\ handle[p] # NilCtx

\* A Render call of p has returned.
Rendered(p) == pc[p] = "idle" /\ caller[p] = "render"

\* Chrome processes that answered their round-trip and were not closed by Close.
Unclosed == {L \in Launches : confirmed[L] = "ok" /\ browserCancels[L] = 0}

\* The goroutines inside the sections that b.mu guards.
InSection == {p \in Procs : pc[p] \in {"ctx_check", "ctx_launch", "ctx_run", "close_body"}}

\* C1: session reuse.  While the session is started no goroutine is on the
\* launch path, at most one confirmed chrome process is unclosed, and any two
\* Context calls that returned with no Close in between returned the same handle.
C1_SessionReuse ==
    /\ started => \A p \in Procs : pc[p] \notin {"ctx_launch", "ctx_run"}
    /\ Cardinality(Unclosed) <= 1
    /\ \A p, q \in Procs :
         (Returned(p) /\ Returned(q) /\ epoch[p] = epoch[q]) => handle[p] = handle[q]

\* C1 witness: two Context calls returned the handle of the only launch.
C1_Witness ==
    /\ launchCount = 1
    /\ closeCount = 0
    /\ \E p, q \in Procs : p # q /\ Returned(p) /\ Returned(q) /\ handle[p] = handle[q]

\* C2: launch failure.  A Context call that failed returned no handle, the
\* session is started only on a confirmed launch, and a handle returned
\* without error is never the context of a failed launch.
C2_LaunchFailure ==
    /\ \A p \in Procs :
         (pc[p] = "idle" /\ caller[p] = "api" /\ err[p] = "LaunchError") => handle[p] = NilCtx
    /\ started => confirmed[browserCtx] = "ok"
    /\ \A p \in Procs : Returned(p) => confirmed[handle[p]] = "ok"

\* C2 witness: one call failed to launch, a later call launched again and succeeded.
C2_Witness ==
    /\ confirmed[1] = "fail"
    /\ \E p, q \in Procs :
         /\ pc[p] = "idle" /\ caller[p] = "api" /\ err[p] = "LaunchError"
         /\ Returned(q) /\ handle[q] = 2

\* C3: Close is idempotent.  The contexts of a confirmed launch are cancelled
\* by Close not at all while it is the started session and exactly once each
\* afterwards; a failed launch has only the allocCancel of the failure path; and
\* closeCount is the number of closed launches.
C3_CloseIdempotent ==
    /\ \A L \in Launches :
         /\ confirmed[L] = "ok" =>
              IF started /\ browserCtx = L
                THEN browserCancels[L] = 0 /\ allocCancels[L] = 0
                ELSE browserCancels[L] = 1 /\ allocCancels[L] = 1
         /\ confirmed[L] = "fail" => browserCancels[L] = 0 /\ allocCancels[L] = 1
         /\ confirmed[L] = "none" => browserCancels[L] = 0 /\ allocCancels[L] = 0
    /\ closeCount = Cardinality({L \in Launches : browserCancels[L] > 0})

\* C3 witness: two Close calls returned after the one launch was closed, so
\* one of them found the session already closed.
C3_Witness ==
    /\ launchCount = 1
    /\ closeCount = 1
    /\ browserCancels[1] = 1
    /\ \E p, q \in Procs :
         /\ p # q
         /\ pc[p] = "idle" /\ caller[p] = "close" /\ epoch[p] = 1
         /\ pc[q] = "idle" /\ caller[q] = "close" /\ epoch[q] = 1

\* C4: mutual exclusion.  At most one goroutine is inside the guarded sections,
\* its holder is recorded in mu, and while no Close has run a confirmed first
\* launch is the only launch and every returned handle is its handle.
C4_MutualExclusion ==
    /\ Cardinality(InSection) <= 1
    /\ \A p \in InSection : mu = p
    /\ (closeCount = 0 /\ confirmed[1] = "ok") =>
          /\ launchCount = 1
          /\ \A p \in Procs : Returned(p) => handle[p] = 1

\* C4 witness: one call is confirming its launch while another waits for the lock.
C4_Witness ==
    \E p, q \in Procs : pc[p] = "ctx_run" /\ pc[q] = "ctx_lock" /\ ~started /\ launchCount = 1

\* C5: every handle that Context returns without error belongs to a chrome
\* process that has not been terminated when Context returns.
C5_LiveHandle ==
    \A p \in Procs : (pc[p] = "idle" /\ caller[p] = "api" /\ err[p] = "nil") => liveAtReturn[p]

\* The phases of a call in their order, as protocol steps.
PhaseOrder == <<"viewport", "navigate", "content", "wait", "read", "extract">>

IsPhase(e) == e[1] # "diag"

Phases(p) == SelectSeq(log[p], IsPhase)

\* C6: the phases of a Render call begin in the fixed order, each after the
\* one before it succeeded, none skipped or repeated; a call that returned a
\* result has run all of them with success, and a call in flight has no
\* failed phase behind it other than the wait it is about to report.
C6_PhaseOrder ==
    \A p \in Procs :
      LET ph == Phases(p) IN
        /\ Len(ph) <= Len(PhaseOrder)
        /\ \A i \in 1..Len(ph) : ph[i][1] = PhaseOrder[i]
        /\ \A i \in 1..(Len(ph) - 1) : ph[i][2]
        /\ Len(log[p]) > 0 => tab[p] # "none"
        /\ (Rendered(p) /\ err[p] = "nil") =>
              (Len(ph) = Len(PhaseOrder) /\ ph[Len(ph)][2])
        /\ (Rendered(p) /\ err[p] # "nil" /\ Len(ph) = Len(PhaseOrder)) => ~ph[Len(ph)][2]
        /\ (pc[p] \notin {"idle", "r_diag"} /\ Len(ph) > 0) => ph[Len(ph)][2]

\* C6 witness: a call that ended Completed after all phases.
C6_Witness ==
    \E p \in Procs : Rendered(p) /\ err[p] = "nil" /\ Len(log[p]) = 6 /\ record[p] = "ok"

\* C7: a Render call that returned after it opened its browsing context has
\* released it, and a browsing context is open only while its call is in flight.
C7_TabReleased ==
    \A p \in Procs :
      /\ (Rendered(p) /\ handle[p] # NilCtx) => tab[p] = "released"
      /\ tab[p] = "open" => (caller[p] = "render" /\ pc[p] # "idle")

\* C7 witness: a call that failed on the wait returned with its context released.
C7_Witness ==
    \E p \in Procs : Rendered(p) /\ err[p] = "WaitError" /\ tab[p] = "released"

\* C8: a Render call that obtained a handle leaves the session started with
\* that handle for as long as no Close has closed it.
C8_SessionKept ==
    \A p \in Procs :
      (caller[p] = "render" /\ handle[p] # NilCtx /\ epoch[p] = closeCount) =>
         (started /\ browserCtx = handle[p])

\* C8 witness: a call ended Failed and the session still holds its handle.
C8_Witness ==
    \E p \in Procs :
      /\ Rendered(p) /\ err[p] = "RenderError"
      /\ started /\ browserCtx = handle[p] /\ epoch[p] = closeCount

\* C9: when the page script failed fast (failure record written before the
\* deadline, no vector element ever in the container) and no Close interfered,
\* a Render call that reached the wait fails with the diagram-render error
\* built from the record.
C9_FailFastIsRenderError ==
    \A p \in Procs :
      (/\ Rendered(p)
       /\ record[p] = "fail" /\ ~svgEver[p]
       /\ expired[p] => atDeadline[p] = "fail"
       /\ closeCount = 0
       /\ \E i \in 1..Len(log[p]) : log[p][i][1] = "wait")
      => (err[p] = "RenderError" /\ resultJSON[p] = RecordJSON("fail"))

\* C10: when the wait ended because the deadline passed and the page held a
\* failure record written before the deadline, the error of Render contains
\* that record.
C10_TimeoutCarriesRecord ==
    \A p \in Procs :
      (Rendered(p) /\ err[p] = "WaitError" /\ expired[p] /\ atDeadline[p] = "fail")
      => resultJSON[p] = RecordJSON(record[p])

\* The read of the slot by call p succeeded.
ReadDone(p) == \E i \in 1..Len(log[p]) : log[p][i][1] = "read" /\ log[p][i][2]

\* C11: a Render call returns a result only if the record it read has
\* success = true, and then the title and the description of the result are
\* those of the record, the empty string where the record has null; when the
\* record it read has no success = true the call returns no result and the
\* diagram-render error that is built from the record.
C11_ResultFromRecord ==
    \A p \in Procs :
      Rendered(p) =>
        /\ err[p] = "nil" =>
             /\ resultJSON[p] = RecordJSON("ok")
             /\ result[p].data # "none"
             /\ result[p].title = (IF meta[p][1] = Null THEN "" ELSE meta[p][1])
             /\ result[p].desc = (IF meta[p][2] = Null THEN "" ELSE meta[p][2])
        /\ err[p] # "nil" => result[p] = NoResult
        /\ (ReadDone(p) /\ resultJSON[p] # RecordJSON("ok")) => err[p] = "RenderError"

\* C11 witness: a call returned a result with the title of the record and the
\* empty description of a record whose desc is null.
C11_Witness ==
    \E p \in Procs :
      /\ Rendered(p) /\ err[p] = "nil" /\ record[p] = "ok"
      /\ meta[p] = <<"title", Null>>
      /\ result[p].title = "title" /\ result[p].desc = ""

\* C12: capturePNG with a transparent background has the override set when
\* it captures, and a Render call for png never returns with the override that
\* it set still in place on its page.
C12_PngOverrideReset ==
    \A p \in Procs :
      /\ (pc[p] = "r_png_capture" /\ opts[p].transparent) => override[p]
      /\ (Rendered(p) /\ outFormat[p] = "png") => ~override[p]

\* C13: a Render call for pdf never returns with the transparent background
\* override that capturePDF set still in place on its page.
C13_PdfOverrideReset ==
    \A p \in Procs :
      /\ (pc[p] = "r_pdf_print" /\ opts[p].transparent) => override[p]
      /\ (Rendered(p) /\ outFormat[p] = "pdf") => ~override[p]

\* Errors of the commands that follow the bounds query in capturePNG and capturePDF.
LaterCommandErrors == {"ResizeError", "SetBgError", "CaptureError", "PDFError"}

\* C14: when the bounds query found no svg element, the raster capture and the
\* print with fit return no bytes and fail with the bounds error (left aside
\* the calls in which a later command itself failed).
C14_BoundsUnavailable ==
    \A p \in Procs :
      (Rendered(p) /\ bounds[p] = "default" /\ err[p] \notin LaterCommandErrors)
      => (err[p] = "BoundsError" /\ result[p] = NoResult)

\* C15: a vector extraction on a page without an svg element in the container
\* returns no result and the no-svg error (or the error of the command when the
\* command itself failed), and a vector result is never empty.
C15_NoSVGIsError ==
    \A p \in Procs :
      (Rendered(p) /\ outFormat[p] = "svg") =>
        /\ ~svgIn[p] => (err[p] \in {"NoSVGError", "ExtractError"} /\ result[p] = NoResult)
        /\ err[p] = "nil" => (svgIn[p] /\ result[p].data \in {"svg", "svgfit"})
        /\ err[p] = "NoSVGError" => ~svgIn[p]

\* C15 witness: a vector extraction found no svg element and failed.
C15_Witness ==
    \E p \in Procs :
      Rendered(p) /\ outFormat[p] = "svg" /\ ~svgIn[p] /\ err[p] = "NoSVGError"
         /\ result[p] = NoResult

\* The wait of call p ended with an error.
WaitFailed(p) == \E i \in 1..Len(log[p]) : log[p][i][1] = "wait" /\ ~log[p][i][2]

\* C16: deadline isolation.  The wait of a call fails only when its own
\* deadline has passed or the browser context it runs in was cancelled; and the
\* deadline of a call leaves the session started with its chrome process
\* running, until a Close.
C16_DeadlineIsolation ==
    \A p \in Procs :
      /\ WaitFailed(p) => (expired[p] \/ BrowserDone(handle[p]))
      /\ (expired[p] /\ closeCount = 0 /\ handle[p] # NilCtx) =>
            (started /\ browserCtx = handle[p] /\ Alive(handle[p]))

\* C16 witness: the deadline of one call passed while another call was in flight,
\* the first call failed on its wait and the other one returned a result, with
\* the session still started.
C16_Witness ==
    \E p, q \in Procs :
      /\ p # q
      /\ Rendered(p) /\ expired[p] /\ err[p] = "WaitError"
      /\ q \in peers[p]
      /\ Rendered(q) /\ ~expired[q] /\ err[q] = "nil"
      /\ started /\ closeCount = 0

InPhases(p) == caller[p] = "render" /\ pc[p] \notin {"idle", "ctx_lock", "ctx_check", "ctx_launch", "ctx_run"}

\* C18: b.mu is held only by a goroutine inside Context or Close; a Render
\* call in its phases does not hold it.
C18_LockOnlyInContextAndClose ==
    /\ mu # NoProc => mu \in InSection
    /\ \A p \in Procs : InPhases(p) => mu # p

\* C18 witness: one call is inside Context with the lock while another call is
\* in its phases, waiting on its page.
C18_Witness ==
    \E p, q \in Procs :
      /\ p # q
      /\ pc[p] = "r_wait" /\ tab[p] = "open"
      /\ pc[q] = "ctx_check" /\ mu = q /\ caller[q] = "render"

\* What the JavaScript parser reads for the escape \uXXXX.
Unicode(hex) ==
    CASE hex = <<"0", "0", "3", "c">> -> "<"
      [] hex = <<"0", "0", "3", "e">> -> ">"
      [] hex = <<"0", "0", "2", "6">> -> "&"
      [] OTHER -> "?"

\* The string literals of a script text as the JavaScript parser reads them,
\* left to right: a literal runs from a quote to the next quote that is not
\* escaped.  open: the text ends inside a literal.
RECURSIVE Scan(_, _, _, _, _)
Scan(h, i, inLit, cur, acc) ==
    IF i > Len(h) THEN [lits |-> acc, open |-> inLit]
    ELSE IF ~inLit
      THEN Scan(h, i + 1, h[i] = "\"", <<>>, acc)
    ELSE IF h[i] = "\""
      THEN Scan(h, i + 1, FALSE, <<>>, Append(acc, cur))
    ELSE IF h[i] # "\\"
      THEN Scan(h, i + 1, TRUE, Append(cur, h[i]), acc)
    ELSE IF i + 1 > Len(h)
      THEN [lits |-> acc, open |-> TRUE]
    ELSE IF h[i + 1] # "u"
      THEN Scan(h, i + 2, TRUE, Append(cur, h[i + 1]), acc)
    ELSE IF i + 5 > Len(h)
      THEN [lits |-> acc, open |-> TRUE]
    ELSE Scan(h, i + 6, TRUE, Append(cur, Unicode(SubSeq(h, i + 2, i + 5))), acc)

Literals(h) == Scan(h, 1, FALSE, <<>>, <<>>)

\* C19: in the page that BuildPageHTML returns the definition, the element
\* id, the background colour, the CSS and the configuration are string
\* literals that end where their value ends and read back as the value; no
\* quote of a value is written without a backslash before it, and no "<" or
\* ">" of a value is written as itself.
C19_EmbeddedAsJSON ==
    (buildOut.done /\ buildOut.err = "nil") =>
      /\ Literals(buildOut.html) =
           [lits |-> <<<<"t", "h", "e", "m", "e">>, buildIn.config.text, buildIn.definition,
                       buildIn.svgId, buildIn.backgroundColor, buildIn.css>>,
            open |-> FALSE]
      /\ \A i \in 1..Len(buildOut.html) : buildOut.html[i] \notin {"<", ">"}

\* C19 witness: a page was built from a definition with a quote and a "<" and
\* from hostile values of the other four.
C19_Witness ==
    /\ buildOut.done /\ buildOut.err = "nil"
    /\ buildIn.definition = <<"\"", "<">>
    /\ buildIn.svgId = Hostile /\ buildIn.backgroundColor = Hostile
    /\ buildIn.css = Hostile /\ buildIn.config.text = Hostile

\* C20: BuildPageHTML returns an error exactly when the configuration cannot
\* be serialized, and then it returns the empty page; otherwise it returns a page.
C20_FailsOnlyOnConfig ==
    buildOut.done =>
      /\ buildOut.err # "nil" <=> buildIn.config.kind # "string"
      /\ buildOut.err # "nil" => buildOut.html = <<>>
      /\ buildOut.err = "nil" => buildOut.html # <<>>

\* C20 witness: a configuration with a func value made BuildPageHTML fail.
C20_Witness ==
    /\ buildOut.done /\ buildIn.config.kind = "func"
    /\ buildOut.err = "ConfigError" /\ buildOut.html = <<>>
    /\ buildIn.definition = <<"a", "a">>

RECURSIVE FirstNamed(_, _)
FirstNamed(nodes, name) ==
    IF nodes = <<>> THEN Null
    ELSE IF Head(nodes).nodeName = name THEN Head(nodes).textContent
    ELSE FirstNamed(Tail(nodes), name)

\* C22: for every list of child nodes of the svg element the reported title is
\* the text of the first child named "title" wherever it stands, the reported
\* description the text of the first child named "desc", and each is null
\* exactly when there is no child of that name.
C22_FirstNamedAnywhere ==
    ret.fn = "metadata" =>
      /\ ret.title = FirstNamed(arg.childNodes, "title")
      /\ ret.desc = FirstNamed(arg.childNodes, "desc")
      /\ ret.title = Null <=> \A i \in 1..Len(arg.childNodes) : arg.childNodes[i].nodeName # "title"
      /\ ret.desc = Null <=> \A i \in 1..Len(arg.childNodes) : arg.childNodes[i].nodeName # "desc"

\* ---------------------------------------------------------------- C23
\* The indices of a string at which a run of whitespace starts.
RunStarts(s) == {i \in 1..Len(s) : s[i] = Space /\ (i = 1 \/ s[i - 1] # Space)}

\* The k-th smallest member of a set of numbers.
Kth(S, k) == CHOOSE i \in S : Cardinality({j \in S : j <= i}) = k

\* The last index of the run of whitespace that starts at i.
RunLast(s, i) == CHOOSE j \in i..Len(s) :
                   /\ \A k \in i..j : s[k] = Space
                   /\ (j = Len(s) \/ s[j + 1] # Space)

\* The characters of s strictly between the indices a and b.
Between(s, a, b) == [i \in 1..(b - a - 1) |-> s[a + i]]

\* C23: when the viewBox attribute splits on whitespace into exactly four
\* components (it holds exactly three runs of whitespace) the serialized svg
\* carries width = the third component, height = the fourth and no max-width;
\* in every other case width, height and style are what the render left.
C23_FitFromViewBox ==
    ret.fn = "svgfit" =>
      IF arg.viewBox # None /\ Cardinality(RunStarts(arg.viewBox[1])) = 3
      THEN LET v == arg.viewBox[1]
               r2 == Kth(RunStarts(v), 2)
               r3 == Kth(RunStarts(v), 3)
           IN  /\ ret.svg.width = Some(Between(v, RunLast(v, r2), r3))
               /\ ret.svg.height = Some(Between(v, RunLast(v, r3), Len(v) + 1))
               /\ ret.svg.maxWidth = None
      ELSE ret.svg = Rendered100

\* C23 witness: the viewBox "2 2 1 2" gave width 1 and height 2 and removed the
\* max-width of the style.
C23_Witness ==
    /\ ret.fn = "svgfit"
    /\ arg.viewBox = Some(<<"2", " ", "2", " ", "1", " ", "2">>)
    /\ ret.svg = [width |-> Some(<<"1">>), height |-> Some(<<"2">>), maxWidth |-> None]

\* ---------------------------------------------------------------- C24
\* C24: the clip rectangle of the PNG capture covers the bounding rectangle of
\* the svg element: its right edge is not left of the element's right edge and
\* its bottom edge is not above the element's bottom edge, for all fixed-point
\* left, top, width and height.
C24_ClipCovers ==
    ret.fn = "clip" =>
      /\ ret.clip.X + ret.clip.Width >= arg.rect.left + arg.rect.width
      /\ ret.clip.Y + ret.clip.Height >= arg.rect.top + arg.rect.height

\* ---------------------------------------------------------------- C25
\* A fraction of inches equals a number of fixed-point CSS pixels at 96 per inch.
IsPixels(q, v) == q.num * 96 * Grid = v * q.den

\* C25: with pdfFit the print request carries the paper width
\* (ceil(width) + 2 x) and height (ceil(height) + 2 y) pixels in inches at 96
\* pixels per inch, four zero margins and the page range "1-1"; without pdfFit
\* it sets no paper size, margin or page range; background printing is on in
\* both cases.
C25_PrintSizing ==
    ret.fn = "pdf" =>
      LET q == ret.params
          b == arg.bounds
          unset == {f \in DOMAIN q : q[f] = None}
      IN  /\ q.printBackground = Some(TRUE)
          /\ arg.PdfFit =>
               /\ unset = {}
               /\ IsPixels(q.paperWidth[1], Ceil(b.Width) + 2 * b.X)
               /\ IsPixels(q.paperHeight[1], Ceil(b.Height) + 2 * b.Y)
               /\ \A m \in {"marginTop", "marginBottom", "marginLeft", "marginRight"} : q[m] = Some(0)
               /\ q.pageRanges = Some(<<"1", "-", "1">>)
          /\ ~arg.PdfFit => unset = DOMAIN q \ {"printBackground"}

\* C25 witness: a fitted print of an svg of 1 x 2 pixels at offset (1, 2) asks
\* for a paper of 3 x 6 pixels.
C25_Witness ==
    /\ ret.fn = "pdf" /\ arg.PdfFit
    /\ arg.bounds = [X |-> Grid, Y |-> 2 * Grid, Width |-> Grid, Height |-> 2 * Grid]
    /\ IsPixels(ret.params.paperWidth[1], 3 * Grid)
    /\ IsPixels(ret.params.paperHeight[1], 6 * Grid)

\* ---------------------------------------------------------------- C26
\* The positions of a Render call in the order of the code: the launch path of
\* Browser.Context, the steps of Render, then those of one extraction function.
CodeOrder == <<{"ctx_lock"}, {"ctx_check"}, {"ctx_launch"}, {"ctx_run"}, {"r_tab"}, {"r_build"},
               {"r_viewport"}, {"r_navigate"}, {"r_content"}, {"r_wait"}, {"r_diag"}, {"r_read"},
               {"r_extract"}, {"r_svg", "r_png_bounds", "r_pdf_bg"}, {"r_png_resize", "r_pdf_bounds"},
               {"r_png_bg", "r_pdf_print"}, {"r_png_capture", "r_pdf_reset"}, {"r_png_reset"}>>

Rank(at) == CHOOSE i \in 1..Len(CodeOrder) : at \in CodeOrder[i]

\* C26: a Render call retries nothing.  Its position only moves forward in the
\* code until it returns, so the launch path and every protocol step are passed
\* at most once; no step appears twice among the steps the call issued; and a
\* step that failed is the last one issued, but for the diagnostic read that
\* follows a failed wait.
C26_NoRetries ==
    /\ [][\A p \in Procs :
            (caller[p] = "render" /\ pc[p] # "idle" /\ pc'[p] # pc[p]) =>
              (pc'[p] = "idle" \/ Rank(pc'[p]) > Rank(pc[p]))]_vars
    /\ [](\A p \in Procs :
            /\ \A i, j \in 1..Len(log[p]) : log[p][i][1] = log[p][j][1] => i = j
            /\ \A i \in 1..Len(log[p]) :
                 ~log[p][i][2] =>
                   \/ i = Len(log[p])
                   \/ log[p][i][1] = "wait" /\ i + 1 = Len(log[p]) /\ log[p][i + 1][1] = "diag")

\* C26 witness: a Render call whose navigation failed has returned the error
\* after issuing the viewport step and the navigation once each.
C26_Witness ==
    \E p \in Procs :
      /\ caller[p] = "render" /\ pc[p] = "idle" /\ err[p] = "NavigateError"
      /\ Len(log[p]) = 2 /\ log[p][1][1] = "viewport" /\ log[p][2][1] = "navigate"
      /\ ~log[p][2][2]

\* ---------------------------------------------------------------- C27
\* C27: in one call of run() the browser is launched at most once however many
\* diagrams are rendered, Close is called at most once, no Render call begins
\* after it, and when run has returned, whatever the return statement, Close
\* has been called exactly once.
C27_CreatedOnceClosedOnce ==
    /\ [](launchCount <= 1 /\ run.closes <= 1)
    /\ [](run.at = "exited" => run.closes = 1 /\ pc[Main] = "idle")
    /\ [][run.renders' # run.renders => run.closes = 0]_vars

\* C27 witness: run has returned after rendering MaxDiagrams diagrams in one
\* browser and closing it.
C27_Witness ==
    /\ run.at = "exited" /\ run.renders = MaxDiagrams /\ run.todo = 0
    /\ launchCount = 1 /\ closeCount = 1 /\ run.closes = 1

\* ---------------------------------------------------------- C28, C29
\* The mermaid blocks of a text, each as <<first line, last line>>: a block
\* opens at an opening fence that lies in no earlier block and reaches to the
\* nearest later line that ends in a fence.
Closes(content, i, j) ==
    /\ i < j /\ IsFence(content[j])
    /\ \A k \in (i + 1)..(j - 1) : ~IsFence(content[k])

RECURSIVE BlocksUpTo(_, _)
BlocksUpTo(content, n) ==
    IF n = 0 THEN {}
    ELSE LET earlier == BlocksUpTo(content, n - 1)
         IN  IF IsOpen(content[n]) /\ \A b \in earlier : b[2] < n
             THEN earlier \cup {<<n, j>> : j \in {k \in 1..Len(content) : Closes(content, n, k)}}
             ELSE earlier

Blocks(content) == BlocksUpTo(content, Len(content))

\* The number of a block in document order.
Ordinal(content, b) == Cardinality({a \in Blocks(content) : a[1] <= b[1]})

\* C28: ExtractDiagrams returns one block per mermaid block of the text, in
\* document order, and nothing else; the block at position k (counted from 1)
\* has Index k.
C28_OneBlockPerFence ==
    ret.fn = "extract" =>
      /\ Len(ret.blocks) = Cardinality(Blocks(arg.content))
      /\ \A b \in Blocks(arg.content) :
           ret.blocks[Ordinal(arg.content, b)].FullMatch = SubSeq(arg.content, b[1], b[2])
      /\ \A k \in 1..Len(ret.blocks) : ret.blocks[k].Index = k

\* C28 witness: a text with a backtick block, a colon block and no other line
\* gave two blocks, numbered 1 and 2.
C28_Witness ==
    /\ ret.fn = "extract"
    /\ arg.content = <<<<BacktickFence, "mermaid">>, Ln(BacktickFence), <<ColonFence, "mermaid">>, Ln(ColonFence)>>
    /\ Len(ret.blocks) = 2
    /\ ret.blocks[1].Index = 1 /\ ret.blocks[2].Index = 2

\* What line i of the text becomes: a line outside the blocks is kept; the
\* k-th block becomes the reference to the k-th image when there is one, and is
\* kept otherwise.
Piece(content, images, i) ==
    LET in == {b \in Blocks(content) : b[1] <= i /\ i <= b[2]}
    IN  IF in = {} THEN <<content[i]>>
        ELSE LET b == CHOOSE x \in in : TRUE
                 k == Ordinal(content, b)
             IN  IF k > Len(images) THEN <<content[i]>>
                 ELSE IF i = b[1] THEN <<MarkdownImage(images[k])>>
                 ELSE <<>>

RECURSIVE Pieces(_, _, _)
Pieces(content, images, n) ==
    IF n = 0 THEN <<>> ELSE Pieces(content, images, n - 1) \o Piece(content, images, n)

\* C29: ReplaceDiagrams replaces the k-th mermaid block by the reference to
\* the k-th image for k up to the smaller of the two counts, ignores the images
\* beyond the blocks, leaves the blocks beyond the images as they were, and
\* keeps every line outside the blocks.
C29_ReplaceUpToMin ==
    ret.fn = "replace" =>
      ret.out = Pieces(arg.content, arg.images, Len(arg.content))

\* C29 witness: of two blocks only the first was replaced, since there was one
\* image.
C29_Witness ==
    /\ ret.fn = "replace"
    /\ Len(arg.images) = 1
    /\ arg.content = <<<<BacktickFence, "mermaid">>, Ln(BacktickFence), <<ColonFence, "mermaid">>, Ln(ColonFence)>>
    /\ ret.out = <<MarkdownImage(AllImages[1]), <<ColonFence, "mermaid">>, Ln(ColonFence)>>

\* ---------------------------------------------------------------- C30
\* The entries of a list that contain a '#'.
WithHash(packs) == {i \in 1..Len(packs) : \E j \in 1..Len(packs[i]) : packs[i][j] = Hash}

\* C30: ParseIconPacksNamesAndUrls keeps the order of its input, drops the
\* entries without '#', and splits every other entry at its first '#': the name
\* holds no '#', and name, '#' and URL together are the entry.  The result is
\* never longer than the input.
C30_SplitAtFirstHash ==
    ret.fn = "icons" =>
      LET packs == arg.packs
          kept == WithHash(packs)
      IN  /\ Len(ret.result) = Cardinality(kept)
          /\ Len(ret.result) <= Len(packs)
          /\ \A i \in kept :
               LET pack == ret.result[Cardinality({k \in kept : k <= i})]
               IN  /\ pack.Name \o <<Hash>> \o pack.URL = packs[i]
                   /\ \A j \in 1..Len(pack.Name) : pack.Name[j] # Hash

\* C30 witness: of the entries "a" and "a##" the first was dropped and the
\* second gave the name "a" and the URL "#".
C30_Witness ==
    /\ ret.fn = "icons"
    /\ arg.packs = <<<<"a">>, <<"a", Hash, Hash>>>>
    /\ ret.result = <<[Name |-> <<"a">>, URL |-> <<Hash>>]>>

\* ---------------------------------------------------------- C31, C37
\* The index of the k-th occurrence of a fixed piece in a script text.
At(js, piece, k) == Kth({i \in 1..Len(js) : js[i] = piece}, k)

\* The fixed pieces of a script text, in the order they are written.
Skeleton(js) ==
    SelectSeq(js, LAMBDA c : c \in {JSHead, JSName, JSLoader, JSCatch, JSEnd, JSTail})

RECURSIVE Repeated(_, _)
Repeated(pieces, n) == IF n = 0 THEN <<>> ELSE pieces \o Repeated(pieces, n - 1)

\* C31: GenerateIconPackJS returns the empty text for no packs; for n > 0 packs
\* it returns one registerIconPacks call with n entries, the k-th holding the
\* name of the k-th pack as its name and a loader that fetches the k-th URL
\* and catches a failure with console.error.  The page of BuildPageHTML holds
\* a registerIconPacks call exactly when there are icon packs.
C31_OneCallOneEntryPerPack ==
    ret.fn = "iconjs" =>
      LET n == Len(arg.packs)
      IN  /\ n = 0 => ret.js = <<>>
          /\ n > 0 => Skeleton(ret.js) =
                        <<JSHead>> \o Repeated(<<JSName, JSLoader, JSCatch, JSEnd>>, n) \o <<JSTail>>
          /\ \A k \in 1..n :
               /\ Literals(Between(ret.js, At(ret.js, JSName, k), At(ret.js, JSLoader, k))) =
                    [lits |-> <<arg.packs[k].Name>>, open |-> FALSE]
               /\ Literals(Between(ret.js, At(ret.js, JSLoader, k), At(ret.js, JSCatch, k))) =
                    [lits |-> <<arg.packs[k].URL>>, open |-> FALSE]
          /\ (\E i \in 1..Len(ret.page) : ret.page[i] = JSHead) <=> n > 0

\* C31 witness: the script for two packs, one with a quote in its name before
\* the pack logos of the tests.
C31_Witness ==
    /\ ret.fn = "iconjs"
    /\ arg.packs = <<IconPack(<<"\"">>, <<"a">>), TestPacks[1]>>
    /\ Len(Skeleton(ret.js)) = 10
    /\ At(ret.js, JSHead, 1) = 1

\* The string literals that the script of a pack must hold: its name, its URL
\* and the message with its name.
RECURSIVE PackLiterals(_)
PackLiterals(packs) ==
    IF packs = <<>> THEN <<>>
    ELSE <<Head(packs).Name, Head(packs).URL, <<JSFailed>> \o Head(packs).Name>>
           \o PackLiterals(Tail(packs))

\* C37: for every pack name and URL, quote, backslash and "<" included, the
\* three places where GenerateIconPackJS writes a value are string literals
\* that end where the value ends and read back as the value.
C37_PacksStayInLiterals ==
    ret.fn = "iconjs" =>
      Literals(ret.js) = [lits |-> PackLiterals(arg.packs), open |-> FALSE]

\* ---------------------------------------------------------------- C32

\* The value the file gives to key k: the value of the last member with that key.
LastValue(members, k) ==
    members[Kth({i \in 1..Len(members) : members[i].key = k},
                Cardinality({i \in 1..Len(members) : members[i].key = k}))].value
FileKeys(members) == {members[i].key : i \in 1..Len(members)}

\* C32: a mapping returned by LoadMermaidConfig without error has the key theme;
\* without a file it is exactly {theme: the given theme}; with a file every key
\* of the file has the file's value, theme included, and the keys are those of
\* the file and theme; a missing file or a text that does not decode yields an
\* error and no mapping.
C32_ThemeAlwaysPresent ==
    ret.fn = "config" =>
      /\ ~ret.err => "theme" \in DOMAIN ret.cfg
      /\ arg.configFile = "" =>
           ~ret.err /\ DOMAIN ret.cfg = {"theme"} /\ ret.cfg["theme"] = arg.theme
      /\ arg.configFile # "" /\ arg.file.kind = "object" =>
           /\ ~ret.err
           /\ DOMAIN ret.cfg = FileKeys(arg.file.members) \cup {"theme"}
           /\ \A k \in FileKeys(arg.file.members) :
                ret.cfg[k] = LastValue(arg.file.members, k)
           /\ "theme" \notin FileKeys(arg.file.members) => ret.cfg["theme"] = arg.theme
      /\ arg.configFile # "" /\ arg.file.kind \in {"missing", "garbage"} =>
           ret.err /\ ret.cfg = NilConfig

\* C32 witness: the file of the test, {"theme":"dark","logLevel":"error"}, loaded
\* over the theme default.
C32_Witness ==
    /\ ret.fn = "config"
    /\ arg.theme = "default"
    /\ arg.file.members = <<Pair("theme", "dark"), Pair("logLevel", "error")>>
    /\ ~ret.err
    /\ ret.cfg["theme"] = "dark"
    /\ ret.cfg["logLevel"] = "error"

\* ---------------------------------------------------------------- C33

\* The names of the commands sent so far, and the ones the code sends in order.
Names(cmds) == [i \in 1..Len(cmds) |-> cmds[i].cmd]
PngOrder(transparent) ==
    <<"Runtime.evaluate", "Emulation.setDeviceMetricsOverride", "sleep">>
      \o (IF transparent THEN <<"Emulation.setDefaultBackgroundColorOverride">> ELSE <<>>)
      \o <<"Page.captureScreenshot">>
      \o (IF transparent THEN <<"Emulation.setDefaultBackgroundColorOverride">> ELSE <<>>)
Shots(cmds) == {i \in 1..Len(cmds) : cmds[i].cmd = "Page.captureScreenshot"}

\* C33: capturePNG sends bounds query, resize, pause and capture in this order;
\* the resize asks for (x + width, y + height) whole pixels at the requested
\* scale; a capture is sent only after a resize that succeeded, its clip is the
\* queried rectangle at scale 1 with capture beyond the viewport; after a failed
\* bounds query or resize the call has returned an error and sent no capture.
C33_PngStepOrder ==
    png.at # "none" =>
      LET cmds == png.cmds
          rect == BoundsJSON(png.element)
      IN  /\ Len(cmds) <= Len(PngOrder(png.transparent))
          /\ Names(cmds) = SubSeq(PngOrder(png.transparent), 1, Len(cmds))
          /\ Len(cmds) >= 2 =>
               /\ cmds[2].params.width * Grid = rect.X + rect.Width
               /\ cmds[2].params.height * Grid = rect.Y + rect.Height
               /\ cmds[2].params.deviceScaleFactor = png.Scale * Grid
          /\ \A i \in Shots(cmds) :
               /\ cmds[1].ok /\ cmds[2].ok /\ cmds[3].cmd = "sleep" /\ i > 3
               /\ cmds[i].params.clip.X = rect.X /\ cmds[i].params.clip.Y = rect.Y
               /\ cmds[i].params.clip.Width = rect.Width
               /\ cmds[i].params.clip.Height = rect.Height
               /\ cmds[i].params.clip.Scale = Grid
               /\ cmds[i].params.captureBeyondViewport
          /\ (\E i \in 1..Len(cmds) : i <= 2 /\ ~cmds[i].ok) =>
               /\ png.at = "done" /\ png.err # "nil" /\ png.buf = "nil"
               /\ Shots(cmds) = {}
               /\ ~cmds[Len(cmds)].ok

\* C33 witness: a capture that succeeded for an element away from the origin,
\* at scale 2.
C33_Witness ==
    /\ png.at = "done" /\ png.err = "nil" /\ png.buf = "png"
    /\ png.Scale = 2
    /\ png.element = Some([left |-> Grid + 1, top |-> 2, width |-> Grid + 1, height |-> 1])
    /\ Shots(png.cmds) # {}

\* ---------------------------------------------------------------- C34

\* The positions of the events of one kind in the record of run.
EventsOf(kind) == {i \in 1..Len(run.events) : run.events[i].ev = kind}

\* C34: with a markdown input the j-th Render call is for diagram j; diagram
\* k was rendered and its file written before the call for diagram k + 1; a
\* failed render or write is the last thing run does before it returns,
\* so no later diagram is rendered; and the markdown output is written once,
\* after all n diagrams were rendered and written, with n image references of
\* which the k-th carries the title and description of the k-th result.
C34_DiagramsInOrder ==
    run.at # "none" /\ run.markdown =>
      LET ev == run.events
          calls == EventsOf("render")
      IN  /\ \A j \in 1..Cardinality(calls) :
               /\ ev[Kth(calls, j)].k = j
               /\ j > 1 =>
                    \E r \in EventsOf("rendered"), w \in EventsOf("write") :
                      /\ r < w /\ w < Kth(calls, j)
                      /\ ev[r].k = j - 1 /\ ev[r].ok
                      /\ ev[w].k = j - 1 /\ ev[w].ok
                      /\ ev[w].data = ev[r].result.data
          /\ \A i \in 1..Len(ev) :
               ev[i].ev \in {"rendered", "write"} /\ ~ev[i].ok =>
                 /\ i = Len(ev)
                 /\ run.at \in {"return", "closing", "exited"}
          /\ Cardinality(EventsOf("mdwrite")) <= 1
          /\ \A m \in EventsOf("mdwrite") :
               /\ m = Len(ev)
               /\ Len(ev[m].refs) = run.n
               /\ \A k \in 1..run.n :
                    \E r \in EventsOf("rendered"), w \in EventsOf("write") :
                      /\ r < w /\ w < m
                      /\ ev[r].k = k /\ ev[r].ok /\ ev[w].k = k /\ ev[w].ok
                      /\ ev[m].refs[k].URL = k
                      /\ ev[m].refs[k].Alt = ev[r].result.desc
                      /\ ev[m].refs[k].Title = ev[r].result.title

\* C34 witness: the markdown output was written after MaxDiagrams diagrams with
\* different metadata were rendered.
C34_Witness ==
    /\ run.at = "exited" /\ run.markdown /\ run.n = MaxDiagrams
    /\ EventsOf("mdwrite") # {}
    /\ Len(run.imageRefs) = MaxDiagrams
    /\ run.imageRefs[1].Title # run.imageRefs[MaxDiagrams].Title

\* ---------------------------------------------------------------- C35

\* C35: the session is started exactly when some launch was confirmed and has
\* not been closed since; a Close that finds the session started leaves it not
\* started; and a handle that a Context call hands out is never the handle of
\* a closed launch, so after a Close it is that of a later launch.
C35_StartedSinceLastClose ==
    /\ [](started <=> \E L \in Launches : confirmed[L] = "ok" /\ browserCancels[L] = 0)
    /\ [][closeCount' # closeCount => started /\ ~started']_vars
    /\ [][\A p \in Procs :
            (handle'[p] # handle[p] /\ handle'[p] # NilCtx) =>
              /\ started'
              /\ confirmed'[handle'[p]] = "ok"
              /\ browserCancels'[handle'[p]] = 0
              /\ \A L \in Launches : browserCancels[L] > 0 => L < handle'[p]]_vars

\* C35 witness: after the first session was closed a Context call returned the
\* handle of the second launch.
C35_Witness ==
    /\ started /\ closeCount = 1 /\ browserCancels[1] = 1
    /\ confirmed[1] = "ok" /\ confirmed[2] = "ok"
    /\ \E p \in Procs : Returned(p) /\ err[p] = "nil" /\ handle[p] = 2 /\ epoch[p] = 1

\* ---------------------------------------------------------------- C36

\* The Render call of p got its handle from Context and has not returned.
InFlight(p) == caller[p] = "render" /\ handle[p] # NilCtx /\ pc[p] # "idle"

\* C36: a Render call that is in flight when Close cancels the session it got
\* its handle from returns an error: when such a call returns, its error is set
\* and it hands out no result.
C36_ClosedRenderFails ==
    [][\A p \in Procs :
         (InFlight(p) /\ browserCancels[handle[p]] > 0 /\ pc'[p] = "idle") =>
           err'[p] # "nil" /\ result'[p] = NoResult]_vars

\* ---------------------------------------------------------------- C38

\* The positions of a call inside capturePNG and capturePDF, and those at
\* which the set or the reset of the background override is sent.
CapturePositions ==
    {"r_png_bounds", "r_png_resize", "r_png_bg", "r_png_capture", "r_png_reset",
     "r_pdf_bg", "r_pdf_bounds", "r_pdf_print", "r_pdf_reset"}
OverridePositions == {"r_png_bg", "r_png_reset", "r_pdf_bg", "r_pdf_reset"}

\* C38: a capture whose background is not "transparent" never stands at the
\* set or the reset of the background override, and no step of it changes the
\* override of its page, which stays unset.
C38_OverrideUntouched ==
    /\ [](\A p \in Procs :
            (pc[p] \in CapturePositions /\ ~opts[p].transparent) =>
              pc[p] \notin OverridePositions /\ ~override[p])
    /\ [][\A p \in Procs :
            (pc[p] \in CapturePositions /\ ~opts[p].transparent) =>
              override'[p] = override[p]]_vars

\* C38 witness: a pdf capture with fit and an opaque background has returned
\* its bytes.
C38_Witness ==
    /\ Rendered(Main) /\ err[Main] = "nil"
    /\ outFormat[Main] = "pdf" /\ result[Main].data = "pdf"
    /\ ~opts[Main].transparent /\ opts[Main].fit
    /\ bounds[Main] = "measured"
    /\ ~override[Main]

\* ---------------------------------------------------------------- C39

\* The goroutines on the launch path of Context, up to the end of the round-trip.
Launching == {p \in Procs : pc[p] \in {"ctx_launch", "ctx_run"}}

\* C39: a goroutine on the launch path holds the lock; while it does, every
\* other goroutine inside Context or Close stands at its Lock call and does not
\* move; and every handle a caller holds is that of a launch whose round-trip
\* was confirmed.
C39_LockHeldThroughLaunch ==
    /\ [](\A p \in Launching :
            /\ mu = p
            /\ \A q \in Procs \ {p} : pc[q] \in {"idle", "ctx_lock", "close_lock"})
    /\ [][\A p \in Launching : \A q \in Procs \ {p} :
            pc[q] \in {"ctx_lock", "close_lock"} => pc'[q] = pc[q]]_vars
    /\ [](\A p \in Procs : handle[p] # NilCtx => confirmed[handle[p]] = "ok")

\* C39 witness: a Close call waits at the lock while a Context call is in the
\* round-trip of its launch.
C39_Witness ==
    \E p, q \in Procs :
      /\ pc[p] = "ctx_run" /\ mu = p /\ confirmed[browserCtx] = "none"
      /\ pc[q] = "close_lock"

\* ---------------------------------------------------------------- C40

\* C40: when the wait for "#container svg" has succeeded the page script has
\* written window.__mmd_result: a call about to read the slot finds a record
\* in it, and no call returns the diagram-render error from an empty slot.
C40_RecordBeforeWaitEnds ==
    \A p \in Procs :
      /\ pc[p] = "r_read" => record[p] # "none"
      /\ (Rendered(p) /\ err[p] = "RenderError") => resultJSON[p] # RecordJSON("none")


====
